---- MODULE Spec2Model ----
(***************************************************************************)
(* Svelte compiler core: the render context allocator (Renderer), the      *)
(* ordering of reactive declarations (Component) and the template parser   *)
(* (Parser, mustache and tag states).                                      *)
(***************************************************************************)
EXTENDS Integers, Sequences, FiniteSets, TLC

VARIABLES
    \* ---- Renderer ----
    vars,            \* component.vars, in add_var order
    has_slots,       \* component.slots.size > 0
    context,         \* renderer.context (context_lookup is its index by name)
    context_overflow,\* renderer.context_overflow
    registration,    \* names in the order add_to_context first saw them
    r_pc,            \* position inside the Renderer constructor
    render_calls,    \* add_to_context calls made by the fragment wrappers
    dirty_names,     \* argument of the last dirty() evaluation
    dirty_out,       \* expression produced by the last dirty() evaluation
    \* ---- Component.extract_reactive_declarations ----
    reactive_src,    \* the top-level `$:` statements of the instance script, in textual order
    unsorted,        \* unsorted_reactive_declarations
    reactive_declarations, \* component.reactive_declarations (positions in unsorted)
    x_pc,            \* "instance", "sorted" or "error"
    x_error,         \* code of the fatal error, "" when none
    \* ---- Parser ----
    template,        \* the template text handed to the parser, drawn piece by piece
    closed,          \* the template text is complete
    pieces,          \* number of pieces drawn
    index,           \* parser.index
    stack,           \* parser.stack, innermost frame last
    state,           \* the state function the loop applies next
    p_error,         \* code of the ParseError thrown, "" when none
    p_error_pos,     \* start position carried by that error
    nodes,           \* the template nodes created so far, in creation order
    \* ---- Component: the analysis passes of the constructor ----
    module_body,     \* ast.module.content.body
    instance_body,   \* ast.instance.content.body
    template_refs,   \* the names the template refers to, in order
    dev,             \* compile_options.dev
    warnings,        \* names warned about as unused-export-let, in order
    fully_hoisted,   \* component.fully_hoisted
    a_pc,            \* the pass the constructor runs next
    a_error,         \* code of the fatal error, "" when none
    \* ---- Component: warnings and their suppression ----
    ignores,         \* this.ignores: <<>> while undefined, else <<the set of codes>>
    ignore_stack,    \* this.ignore_stack, innermost scope last
    open_scopes,     \* the arguments of the push_ignores calls not yet popped
    asked,           \* the warn calls made: the code and the codes pushed then
    \* ---- Component: is_hoistable, call by call ----
    walk_fns,        \* top_level_function_declarations, in the order of the Map
    walking_fns,         \* the Set `walking`, as names
    walk_stack,      \* the calls of is_hoistable in progress, innermost last
    walk_k,          \* the function the loop of line 1233 is at
    \* ---- Renderer.invalidate ----
    inv_name,        \* the name handed to invalidate
    inv_value,       \* the value handed to it: <<>> when none
    inv_out,         \* the expression it returned
    \* ---- Component: unique names ----
    n_test,          \* the flag `test` of ../config
    lookup_names,    \* the keys of this.var_lookup
    used_names,      \* this.used_names
    globally_used_names, \* this.globally_used_names
    local_used_names,\* the local_used_names of each generator made, in order
    aliases,         \* this.aliases
    handed,          \* the names get_unique_name has returned
    made,            \* the names the generators have returned
    aliased,         \* the <<name, identifier>> pairs alias has returned
    n_last,          \* the last call: what was called, on what, and the result
    n_calls          \* number of calls made

rvars == <<vars, has_slots, context, context_overflow, registration, r_pc,
           render_calls, dirty_names, dirty_out>>

xvars == <<reactive_src, unsorted, reactive_declarations, x_pc, x_error>>

pvars == <<template, closed, pieces, index, stack, state, p_error, p_error_pos, nodes>>

avars == <<module_body, instance_body, template_refs, dev, warnings, fully_hoisted,
           a_pc, a_error>>

wvars == <<ignores, ignore_stack, open_scopes, asked>>

hvars == <<walk_fns, walking_fns, walk_stack, walk_k>>

ivars == <<inv_name, inv_value, inv_out>>

nvars == <<n_test, lookup_names, used_names, globally_used_names, local_used_names,
           aliases, handed, made, aliased, n_last, n_calls>>

svars == <<wvars, hvars, ivars, nvars>>

\* the groups of svars but wvars, but hvars, but ivars, but nvars
wrest == <<hvars, ivars, nvars>>
hrest == <<wvars, ivars, nvars>>
irest == <<wvars, hvars, nvars>>
nrest == <<wvars, hvars, ivars>>

allvars == <<rvars, xvars, pvars, avars, svars>>

(***************************************************************************)
(* Bounds                                                                  *)
(***************************************************************************)
MaxSmallVars   == 2   \* variables of a component with freely chosen flags
MaxVars        == 34  \* variables of a component large enough to overflow
MaxRenderCalls == 1   \* add_to_context calls issued while rendering
MaxDirtyNames  == 2   \* names handed to one dirty() call
MaxDecls       == 3   \* reactive declarations of one instance script
MaxPieces      == 4   \* pieces of template text handed to the parser
MaxStatements  == 2   \* top-level statements of the instance script
MaxScopes      == 2   \* push_ignores scopes open at a time
MaxWarns       == 2   \* warn calls made
MaxFunctions   == 3   \* top-level functions of the instance script
MaxWalkDepth   == 4   \* is_hoistable calls in progress at a time
MaxOccurrences == 2   \* identifiers in the body of one reactive statement
MaxNameCalls   == 4   \* calls that ask for, make or take up a name

(***************************************************************************)
(* Renderer                                                                *)
(***************************************************************************)
WordBits == 31

Props  == <<"$$props", 0>>
Scope  == <<"$$scope", 0>>
Slots  == <<"$$slots", 0>>
VarName(i)   == <<"v", i>>
StoreName(n) == <<"$", n[2]>>          \* `$${v.name}`
Unknown      == <<"?", 0>>             \* a name no one registers

Flags == [hoistable : BOOLEAN, module : BOOLEAN, export_name : BOOLEAN,
          subscribable : BOOLEAN, mutated : BOOLEAN, reassigned : BOOLEAN,
          referenced : BOOLEAN]

\* a module-level variable is always created hoistable (walk_module_js)
VarShapes == {f \in Flags : f.module => f.hoistable}

MkVar(n, f) == [name |-> n, hoistable |-> f.hoistable, module |-> f.module,
                export_name |-> f.export_name, subscribable |-> f.subscribable,
                mutated |-> f.mutated, reassigned |-> f.reassigned,
                referenced |-> f.referenced, is_reactive_dependency |-> FALSE]

\* the injected `$name` variable that accompanies a subscribable variable
StoreVar(n) == [name |-> StoreName(n), hoistable |-> FALSE, module |-> FALSE,
                export_name |-> FALSE, subscribable |-> FALSE, mutated |-> TRUE,
                reassigned |-> FALSE, referenced |-> TRUE,
                is_reactive_dependency |-> FALSE]

\* the injected $$props variable
PropsVar == [name |-> Props, hoistable |-> FALSE, module |-> FALSE,
             export_name |-> FALSE, subscribable |-> FALSE, mutated |-> FALSE,
             reassigned |-> FALSE, referenced |-> TRUE,
             is_reactive_dependency |-> FALSE]

RECURSIVE SeqMax(_)
SeqMax(S) == LET x == CHOOSE y \in S : TRUE
             IN IF S = {x} THEN x
                ELSE LET m == SeqMax(S \ {x}) IN IF x > m THEN x ELSE m

\* component.var_lookup.get(name): the Map keeps the entry set last
VarLookup(name) ==
    LET idx == {i \in 1..Len(vars) : vars[i].name = name}
    IN IF idx = {} THEN <<>> ELSE <<vars[SeqMax(idx)]>>

\* renderer.context_lookup.has(name) / .get(name)
ContextHas(ctx, name) == \E i \in 1..Len(ctx) : ctx[i].name = name
ContextPos(ctx, name) == CHOOSE i \in 1..Len(ctx) : ctx[i].name = name

add_to_context(ctx, name, contextual) ==
    LET ctx1 == IF ~ContextHas(ctx, name)
                THEN Append(ctx, [name |-> name, index |-> Len(ctx),
                                  is_contextual |-> FALSE,
                                  is_non_contextual |-> FALSE,
                                  variable |-> <<>>, priority |-> 0])
                ELSE ctx
        i == ContextPos(ctx1, name)
    IN IF contextual
       THEN [ctx1 EXCEPT ![i].is_contextual = TRUE]
       ELSE [ctx1 EXCEPT ![i].is_non_contextual = TRUE,
                         ![i].variable = VarLookup(name)]

\* forEach(v => this.add_to_context(name)) over names[lo..hi], in order
RECURSIVE AddAll(_, _, _, _)
AddAll(ctx, names, lo, hi) ==
    IF lo > hi THEN ctx
    ELSE IF lo = hi THEN add_to_context(ctx, names[lo], FALSE)
    ELSE LET mid == (lo + hi) \div 2
             first == AddAll(ctx, names, lo, mid)
         IN IF Len(first) >= 0          \* evaluates the first half before the second
            THEN AddAll(first, names, mid + 1, hi) ELSE first

InContext(v) == ~v.hoistable \/ (v.export_name /\ ~v.module)
IsStore(v)   == v.subscribable

\* component.vars.filter(...) mapped to the name that is registered
FilterVars(vs, kind) ==
    LET kept == IF kind = "context" THEN SelectSeq(vs, InContext)
                ELSE SelectSeq(vs, IsStore)
    IN [i \in 1..Len(kept) |-> IF kind = "context" THEN kept[i].name
                               ELSE StoreName(kept[i].name)]

\* constructor, lines 50-62
RegisterAll ==
    LET n1 == FilterVars(vars, "context")
        n2 == FilterVars(vars, "store")
        c1 == AddAll(<<>>, n1, 1, Len(n1))
        c2 == AddAll(c1, n2, 1, Len(n2))
        c3 == IF VarLookup(Props) # <<>> THEN add_to_context(c2, Props, FALSE) ELSE c2
    IN IF has_slots
       THEN add_to_context(add_to_context(c3, Scope, FALSE), Slots, FALSE)
       ELSE c3

\* the bonus of an exported variable below that of a written one
Priority_SmallExport(member) ==
    LET v == member.variable
        base == IF v # <<>>
                THEN 2 + (IF v[1].mutated \/ v[1].reassigned THEN 4 ELSE 0)
                       + (IF v[1].export_name THEN 2 ELSE 0)
                       + (IF v[1].referenced THEN 16 ELSE 0)
                ELSE 0
    IN member.priority + base + (IF ~member.is_contextual THEN 1 ELSE 0)

\* constructor, lines 109-125
Priority(member) ==
    LET v == member.variable
        base == IF v # <<>>
                THEN 2 + (IF v[1].mutated \/ v[1].reassigned THEN 4 ELSE 0)
                       + (IF v[1].export_name THEN 8 ELSE 0)
                       + (IF v[1].referenced THEN 16 ELSE 0)
                ELSE 0
    IN member.priority + base + (IF ~member.is_contextual THEN 1 ELSE 0)

Compare_LatestFirst(a, b) ==
    IF b.priority - a.priority # 0 THEN b.priority - a.priority
    ELSE b.index - a.index
\* the comparator handed to Array.prototype.sort
Compare(a, b) ==
    IF b.priority - a.priority # 0 THEN b.priority - a.priority
    ELSE a.index - b.index

\* m goes in front of the first element it compares below
Insert(sorted, m) ==
    LET after == {i \in 1..Len(sorted) : Compare(m, sorted[i]) < 0}
        k == IF after = {} THEN Len(sorted) + 1
             ELSE CHOOSE i \in after : \A j \in after : i <= j
    IN SubSeq(sorted, 1, k - 1) \o <<m>> \o SubSeq(sorted, k, Len(sorted))

RECURSIVE InsertAll(_, _, _, _)
InsertAll(sorted, ctx, lo, hi) ==
    IF lo > hi THEN sorted
    ELSE IF lo = hi THEN Insert(sorted, ctx[lo])
    ELSE LET mid == (lo + hi) \div 2
             first == InsertAll(sorted, ctx, lo, mid)
         IN IF Len(first) >= 0          \* evaluates the first half before the second
            THEN InsertAll(first, ctx, mid + 1, hi) ELSE first

\* this.context.sort(Compare): the comparator is a total order on members
\* with distinct indices, so every sorting algorithm gives this result
SortContext(ctx) == InsertAll(<<>>, ctx, 1, Len(ctx))

\* constructor, line 106
Overflow_AtWordBits(ctx) == Len(ctx) >= WordBits
\* the flag set one member late
Overflow_Late(ctx) == Len(ctx) > WordBits + 1
Overflow(ctx) == Len(ctx) > WordBits

Reindex_OneBased(ctx) == [i \in 1..Len(ctx) |-> [ctx[i] EXCEPT !.index = i]]
\* constructor, line 130
Reindex(ctx) == [i \in 1..Len(ctx) |-> [ctx[i] EXCEPT !.index = i - 1]]

Scored(ctx) == [i \in 1..Len(ctx) |-> [ctx[i] EXCEPT !.priority = Priority(ctx[i])]]

\* ---- dirty(names) ----
RECURSIVE BitOr(_, _)
BitOr(a, b) ==
    IF a = 0 THEN b
    ELSE IF b = 0 THEN a
    ELSE (IF a % 2 = 1 \/ b % 2 = 1 THEN 1 ELSE 0) + 2 * BitOr(a \div 2, b \div 2)

RECURSIVE Shl1(_)
Shl1(k) == IF k = 0 THEN 1 ELSE 2 * Shl1(k - 1)      \* 1 << k

Hole == [set |-> FALSE, n |-> 0, names |-> <<>>]      \* an index never assigned

RECURSIVE Holes(_)
Holes(k) == IF k <= 0 THEN <<>> ELSE <<Hole>> \o Holes(k - 1)

\* the word and the bit of a slot, lines 236-238
WordOf(value) == value \div WordBits
BitOf(value)  == Shl1(value % WordBits)

Mark_Assign(bitmask, i, n, name) ==
    LET grown == IF Len(bitmask) < i + 1
                 THEN bitmask \o Holes(i + 1 - Len(bitmask)) ELSE bitmask
        old == IF grown[i + 1].set THEN grown[i + 1]
               ELSE [set |-> TRUE, n |-> 0, names |-> <<>>]
    IN [grown EXCEPT ![i + 1] = [set |-> TRUE, n |-> n,
                                 names |-> Append(old.names, name)]]
\* lines 240-243: bitmask[i] is created on first use, then n |= bit
Mark(bitmask, i, n, name) ==
    LET grown == IF Len(bitmask) < i + 1
                 THEN bitmask \o Holes(i + 1 - Len(bitmask)) ELSE bitmask
        old == IF grown[i + 1].set THEN grown[i + 1]
               ELSE [set |-> TRUE, n |-> 0, names |-> <<>>]
    IN [grown EXCEPT ![i + 1] = [set |-> TRUE, n |-> BitOr(old.n, n),
                                 names |-> Append(old.names, name)]]

\* get_bitmask without the `if (!member) return` guard
RECURSIVE get_bitmask_Unguarded(_, _, _)
get_bitmask_Unguarded(ctx, names, bitmask) ==
    IF names = <<>> THEN <<bitmask>>
    ELSE LET name == Head(names) IN
         IF ~ContextHas(ctx, name) THEN <<>>
         ELSE LET value == ctx[ContextPos(ctx, name)].index IN
              IF value = -1 THEN <<>>
              ELSE get_bitmask_Unguarded(ctx, Tail(names),
                               Mark(bitmask, WordOf(value), BitOf(value), name))
\* lines 225-246; the result is <<>> when `unset index` is thrown
RECURSIVE get_bitmask(_, _, _)
get_bitmask(ctx, names, bitmask) ==
    IF names = <<>> THEN <<bitmask>>
    ELSE LET name == Head(names) IN
         IF ~ContextHas(ctx, name) THEN get_bitmask(ctx, Tail(names), bitmask)
         ELSE LET value == ctx[ContextPos(ctx, name)].index IN
              IF value = -1 THEN <<>>
              ELSE get_bitmask(ctx, Tail(names),
                               Mark(bitmask, WordOf(value), BitOf(value), name))

RECURSIVE Terms(_, _)
Terms(bitmask, i) ==
    IF i > Len(bitmask) THEN <<>>
    ELSE (IF bitmask[i].set THEN <<[i |-> i - 1, n |-> bitmask[i].n]>> ELSE <<>>)
         \o Terms(bitmask, i + 1)

\* lines 254-270: the expression getter
\*   form "mask"  : `dirty & n`              (terms = <<[i |-> 0, n |-> n]>>)
\*   form "words" : `dirty[i] & n | ...`     (one term per word in use)
\*   form "throw" : an exception escapes the getter
dirty(ctx, overflow, names) ==
    LET r == get_bitmask(ctx, names, <<>>) IN
    IF r = <<>> THEN [form |-> "throw", terms |-> <<>>]
    ELSE LET bitmask == r[1] IN
         IF Len(bitmask) = 0 THEN [form |-> "mask", terms |-> <<[i |-> 0, n |-> 0]>>]
         ELSE IF overflow THEN [form |-> "words", terms |-> Terms(bitmask, 1)]
         ELSE IF ~bitmask[1].set THEN [form |-> "throw", terms |-> <<>>]
         ELSE [form |-> "mask", terms |-> <<[i |-> 0, n |-> bitmask[1].n]>>]

NoDirty == [form |-> "none", terms |-> <<>>]

(***************************************************************************)
(* Renderer: the component handed to the constructor                       *)
(***************************************************************************)
\* v1, v2, v1, ... : the declared variables alternate between two shapes
Declared(n, f1, f2) ==
    [i \in 1..n |-> MkVar(VarName(i), IF i % 2 = 1 THEN f1 ELSE f2)]

StoreVars(vs) ==
    LET subs == SelectSeq(vs, IsStore)
    IN [i \in 1..Len(subs) |-> StoreVar(subs[i].name)]

ComponentVars(n, f1, f2, props) ==
    LET d == Declared(n, f1, f2)
    IN d \o StoreVars(d) \o (IF props THEN <<PropsVar>> ELSE <<>>)

\* the analysis passes have not been started
WarnIdle ==
    /\ ignores = <<>>
    /\ ignore_stack = <<>>
    /\ open_scopes = <<>>
    /\ asked = <<>>

\* no function is being checked
WalkIdle ==
    /\ walk_fns = <<>>
    /\ walking_fns = {}
    /\ walk_stack = <<>>
    /\ walk_k = 1

\* invalidate has not been called
NoInvalidate == [form |-> "none", calls |-> <<>>]
InvalidateIdle ==
    /\ inv_name = <<>>
    /\ inv_value = <<>>
    /\ inv_out = NoInvalidate

\* no name has been asked for
NoCall == [op |-> "none", name |-> <<>>, scope |-> <<>>, result |-> <<>>]
NamesFresh ==
    /\ lookup_names = {}
    /\ used_names = {}
    /\ globally_used_names = {}
    /\ local_used_names = <<>>
    /\ aliases = {}
    /\ handed = {}
    /\ made = {}
    /\ aliased = {}
    /\ n_last = NoCall
    /\ n_calls = 0

NamesIdle == n_test = FALSE /\ NamesFresh

SideIdle == WarnIdle /\ WalkIdle /\ InvalidateIdle /\ NamesIdle

AnalysisIdle ==
    /\ module_body = <<>>
    /\ instance_body = <<>>
    /\ template_refs = <<>>
    /\ dev = FALSE
    /\ warnings = <<>>
    /\ fully_hoisted = <<>>
    /\ a_pc = "idle"
    /\ a_error = ""

\* the parser has not been started
ParserIdle ==
    /\ template = <<>>
    /\ closed = TRUE
    /\ pieces = 0
    /\ index = 0
    /\ stack = <<>>
    /\ state = "idle"
    /\ p_error = ""
    /\ p_error_pos = -1
    /\ nodes = <<>>

ReactiveIdle ==
    /\ reactive_src = <<>>
    /\ unsorted = <<>>
    /\ reactive_declarations = <<>>
    /\ x_pc = "idle"
    /\ x_error = ""

RInitRest ==
    /\ ReactiveIdle
    /\ ParserIdle
    /\ AnalysisIdle
    /\ SideIdle
    /\ context = <<>>
    /\ context_overflow = FALSE
    /\ registration = <<>>
    /\ r_pc = "new"
    /\ render_calls = 0
    /\ dirty_names = <<>>
    /\ dirty_out = NoDirty

\* small components, every combination of flags
RendererInit ==
    /\ \E n \in 0..MaxSmallVars, f1 \in VarShapes, f2 \in VarShapes, props \in BOOLEAN :
          vars = ComponentVars(n, f1, f2, props)
    /\ has_slots \in BOOLEAN
    /\ RInitRest

\* components around and beyond one bitmask word, a few shapes of variable
Plain == [hoistable |-> FALSE, module |-> FALSE, export_name |-> FALSE,
          subscribable |-> FALSE, mutated |-> FALSE, reassigned |-> FALSE,
          referenced |-> FALSE]
DirtyShapes == {Plain, [Plain EXCEPT !.referenced = TRUE]}
DirtySizes  == (0..MaxSmallVars) \cup ((MaxVars - 4)..MaxVars)

DirtyInit ==
    /\ \E n \in DirtySizes, f1 \in DirtyShapes, f2 \in DirtyShapes :
          vars = ComponentVars(n, f1, f2, FALSE)
    /\ has_slots = FALSE
    /\ RInitRest

(***************************************************************************)
(* Renderer: actions                                                       *)
(***************************************************************************)
Names(ctx) == [i \in 1..Len(ctx) |-> ctx[i].name]

\* constructor, lines 50-62: registration of the component's variables
Register ==
    /\ r_pc = "new"
    /\ context' = RegisterAll
    /\ registration' = Names(context')
    /\ r_pc' = "render"
    /\ UNCHANGED <<vars, has_slots, context_overflow, render_calls,
                   dirty_names, dirty_out, xvars, pvars, avars, svars>>

\* constructor, lines 84-104: a wrapper registers a name while rendering
RenderNames == {VarName(1), <<"c", 1>>}

RenderAdd ==
    /\ r_pc = "render"
    /\ render_calls < MaxRenderCalls
    /\ \E name \in RenderNames, contextual \in BOOLEAN :
          context' = add_to_context(context, name, contextual)
    /\ registration' = Names(context')
    /\ render_calls' = render_calls + 1
    /\ UNCHANGED <<vars, has_slots, context_overflow, r_pc, dirty_names, dirty_out, xvars, pvars, avars, svars>>

\* constructor, lines 106-130: overflow flag, priorities, sort, index overwrite
Allocate ==
    /\ r_pc = "render"
    /\ context_overflow' = Overflow(context)
    /\ context' = Reindex(SortContext(Scored(context)))
    /\ r_pc' = "done"
    /\ UNCHANGED <<vars, has_slots, registration, render_calls, dirty_names, dirty_out, xvars, pvars, avars, svars>>

\* index sequences i1 <= i2 <= ... of length at most k over 1..n
RECURSIVE Picks(_, _)
Picks(n, k) ==
    IF k = 0 THEN {<<>>}
    ELSE LET shorter == Picks(n, k - 1)
         IN shorter \cup UNION {{Append(s, x) : x \in {y \in 1..n : \A j \in 1..(k - 1) : s[j] <= y}} :
                                  s \in {t \in shorter : Len(t) = k - 1}}

\* dirty(names): the names are drawn from the members at the first slots and
\* at the slots around the end of the first word, and one unregistered name
DirtySlots == {0, 1, 5, 30, 31, 32, 33}
AtDirtySlot(member) == member.index \in DirtySlots

Dirty ==
    /\ r_pc = "done"
    /\ dirty_out = NoDirty
    /\ LET cand == Names(SelectSeq(context, AtDirtySlot)) \o <<Unknown>>
       IN \E p \in Picks(Len(cand), MaxDirtyNames) :
             LET names == [i \in 1..Len(p) |-> cand[p[i]]]
             IN /\ dirty_names' = names
                /\ dirty_out' = dirty(context, context_overflow, names)
    /\ UNCHANGED <<vars, has_slots, context, context_overflow, registration,
                   r_pc, render_calls, xvars, pvars, avars, svars>>

RendererNext == Register \/ RenderAdd \/ Allocate
RendererSpec == RendererInit /\ [][RendererNext]_allvars

DirtyNext == Register \/ RenderAdd \/ Allocate \/ Dirty
DirtySpec == DirtyInit /\ [][DirtyNext]_allvars

(***************************************************************************)
(* Component.extract_reactive_declarations                                 *)
(***************************************************************************)
\* instance-level `let` variables; every read of one is a dependency
\* (lines 1287-1297: owner is the instance scope, the variable is writable)
LetNames == {"a", "b", "c"}
NoRead   == ""

\* `$: t = r` (r a name or a literal), `$: t += r` (r another name), `$: t++`
Statements ==
    [kind : {"assign"}, operator : {"="}, target : LetNames,
     read : LetNames \cup {NoRead}]
    \cup {st \in [kind : {"assign"}, operator : {"+="}, target : LetNames,
                  read : LetNames] : st.read # st.target}
    \cup [kind : {"update"}, operator : {"++"}, target : LetNames, read : {NoRead}]

AddOnce(seq, x) == IF \E i \in 1..Len(seq) : seq[i] = x THEN seq ELSE Append(seq, x)
Elems(seq) == {seq[i] : i \in 1..Len(seq)}

\* the walk without lines 1277-1279
Walk_PlainOnly(st) ==
    [assignees |-> <<st.target>>,
     dependencies |-> IF st.kind = "update" THEN <<st.target>>
                      ELSE IF st.read # NoRead THEN <<st.read>> ELSE <<>>]

\* lines 1256-1322: the walk over one statement; a Set keeps insertion order.
\* The identifier on the left of an assignment is an assignee node and is not
\* visited as a reference; the argument of an update expression is.
Walk(st) ==
    IF st.kind = "assign"
    THEN LET d1 == IF st.operator # "=" THEN <<st.target>> ELSE <<>>
             d2 == IF st.read # NoRead THEN AddOnce(d1, st.read) ELSE d1
         IN [assignees |-> <<st.target>>, dependencies |-> d2]
    ELSE [assignees |-> <<st.target>>, dependencies |-> <<st.target>>]

\* lines 1327-1341: lookup.get(name), the declarations assigning name
Lookup(decls, name) ==
    SelectSeq([i \in 1..Len(decls) |-> i],
              LAMBDA i : name \in Elems(decls[i].assignees))

\* the pairs without the `!declaration.assignees.has(w)` test
Edges_WithSelf(decls) ==
    UNION {{<<v, w>> : v \in Elems(decls[i].assignees),
                       w \in Elems(decls[i].dependencies)} :
           i \in 1..Len(decls)}
\* lines 1343-1353: the [assignee, dependency] pairs handed to the cycle check
Edges(decls) ==
    UNION {{<<v, w>> : v \in Elems(decls[i].assignees),
                       w \in Elems(decls[i].dependencies) \ Elems(decls[i].assignees)} :
           i \in 1..Len(decls)}

\* check_graph_for_cycles: is some node of the graph on a cycle
RECURSIVE Reach(_, _, _)
Reach(edges, from, n) ==
    IF n = 0 THEN from
    ELSE Reach(edges, from \cup {e[2] : e \in {f \in edges : f[1] \in from}}, n - 1)

check_graph_for_cycles(edges) ==
    \E e \in edges : e[1] \in Reach(edges, {e[2]}, Cardinality(edges))

RECURSIVE add_declaration(_, _, _), AddDependencies(_, _, _, _), AddEarlier(_, _, _, _)

\* add_declaration that appends a declaration without visiting what it depends on
add_declaration_NoDependencies(decls, list, d) ==
    IF d \in Elems(list) THEN list ELSE Append(list, d)

\* add_declaration without the test of line 1366
add_declaration_Again(decls, list, d) ==
    Append(AddDependencies(decls, list, d, 1), d)

\* lines 1365-1384: add_declaration, threading this.reactive_declarations.
\* (`seen` is written at line 1370 and never read.)
add_declaration(decls, list, d) ==
    IF d \in Elems(list) THEN list
    ELSE Append(AddDependencies(decls, list, d, 1), d)

AddDependencies(decls, list, d, q) ==
    IF q > Len(decls[d].dependencies) THEN list
    ELSE LET name == decls[d].dependencies[q] IN
         IF name \in Elems(decls[d].assignees)
         THEN AddDependencies(decls, list, d, q + 1)
         ELSE AddDependencies(decls, AddEarlier(decls, list, Lookup(decls, name), 1), d, q + 1)

AddEarlier(decls, list, earlier, j) ==
    IF j > Len(earlier) THEN list
    ELSE AddEarlier(decls, add_declaration(decls, list, earlier[j]), earlier, j + 1)

\* lines 1386-1389
RECURSIVE AddEach(_, _, _)
AddEach(decls, list, d) ==
    IF d > Len(decls) THEN list
    ELSE AddEach(decls, add_declaration(decls, list, d), d + 1)

RECURSIVE SeqsOf(_, _)
SeqsOf(S, k) ==
    IF k = 0 THEN {<<>>}
    ELSE LET shorter == SeqsOf(S, k - 1)
         IN shorter \cup {Append(s, x) : s \in {t \in shorter : Len(t) = k - 1}, x \in S}

RendererIdle ==
    /\ vars = <<>>
    /\ has_slots = FALSE
    /\ context = <<>>
    /\ context_overflow = FALSE
    /\ registration = <<>>
    /\ r_pc = "idle"
    /\ render_calls = 0
    /\ dirty_names = <<>>
    /\ dirty_out = NoDirty

ReactiveInit ==
    /\ RendererIdle
    /\ ParserIdle
    /\ AnalysisIdle
    /\ SideIdle
    /\ reactive_src \in SeqsOf(Statements, MaxDecls)
    /\ unsorted = <<>>
    /\ reactive_declarations = <<>>
    /\ x_pc = "instance"
    /\ x_error = ""

\* extract_reactive_declarations, lines 1246-1390
ExtractReactiveDeclarations ==
    /\ x_pc = "instance"
    /\ LET decls == [i \in 1..Len(reactive_src) |-> Walk(reactive_src[i])]
       IN /\ unsorted' = decls
          /\ IF check_graph_for_cycles(Edges(decls))
             THEN /\ x_pc' = "error"
                  /\ x_error' = "cyclical-reactive-declaration"
                  /\ reactive_declarations' = reactive_declarations
             ELSE /\ x_pc' = "sorted"
                  /\ x_error' = ""
                  /\ reactive_declarations' = AddEach(decls, reactive_declarations, 1)
    /\ UNCHANGED <<reactive_src, rvars, pvars, avars, svars>>

ReactiveNext == ExtractReactiveDeclarations
ReactiveSpec == ReactiveInit /\ [][ReactiveNext]_allvars

(***************************************************************************)
(* Component: the analysis passes of the constructor                       *)
(***************************************************************************)
\* a name is a sequence of characters: name[0] === '$' is name[1] = "$" here
\* no name counts as starting with '$'
IsDollar_Never(name) == FALSE

IsDollar(name) == Len(name) > 0 /\ name[1] = "$"
PropsName == <<"$", "$", "p", "r", "o", "p", "s">>

\* a top-level statement of a script:
\*   VariableDeclaration  kind, declarators ([name, init]), exported
\*   FunctionDeclaration  name, refs (the names its body refers to), assigns
\*   ExpressionStatement  refs, assigns (the refs that are assigned to)
VariableDeclaration(kind, declarators, exported) ==
    [type |-> "VariableDeclaration", kind |-> kind, declarators |-> declarators,
     exported |-> exported, name |-> <<>>, refs |-> <<>>, assigns |-> {}]
FunctionDeclaration(name, refs) ==
    [type |-> "FunctionDeclaration", kind |-> "", declarators |-> <<>>,
     exported |-> FALSE, name |-> name, refs |-> refs, assigns |-> {}]
ExpressionStatement(refs, assigns) ==
    [type |-> "ExpressionStatement", kind |-> "", declarators |-> <<>>,
     exported |-> FALSE, name |-> <<>>, refs |-> refs, assigns |-> assigns]
\* `$: left = ...` (member: `$: left.x = ...`), refs the names it refers to,
\* the left one among them
LabeledStatement(left, member, refs) ==
    [type |-> "LabeledStatement", kind |-> "", declarators |-> <<>>,
     exported |-> FALSE, name |-> left, refs |-> refs,
     assigns |-> IF member THEN {} ELSE {left}, member |-> member]
Declarator(name, init) == [name |-> name, init |-> init]

\* create_scopes: the declarations of the top-level scope, as (name, node)
\* in the order of the script; the node of an exported declaration is the
\* declaration inside the export
NodeDeclarations(node) ==
    IF node.type = "VariableDeclaration"
    THEN [d \in 1..Len(node.declarators) |->
             [name |-> node.declarators[d].name, node |-> node]]
    ELSE IF node.type = "FunctionDeclaration" THEN <<[name |-> node.name, node |-> node]>>
    ELSE <<>>

RECURSIVE ScopeDeclarations(_, _)
ScopeDeclarations(body, k) ==
    IF k > Len(body) THEN <<>>
    ELSE NodeDeclarations(body[k]) \o ScopeDeclarations(body, k + 1)

DeclaredNames(body) ==
    {ScopeDeclarations(body, 1)[d].name : d \in 1..Len(ScopeDeclarations(body, 1))}

RECURSIVE Distinct(_, _)
\* the elements of a sequence, each kept where it first appears
Distinct(s, k) ==
    IF k > Len(s) THEN <<>>
    ELSE IF \E j \in 1..(k - 1) : s[j] = s[k] THEN Distinct(s, k + 1)
    ELSE <<s[k]>> \o Distinct(s, k + 1)

RECURSIVE References(_, _)
\* every name the script refers to, in order
References(body, k) ==
    IF k > Len(body) THEN <<>> ELSE body[k].refs \o References(body, k + 1)

\* create_scopes: globals, the names referred to and declared in no scope
\* (the function bodies of the scripts in use declare nothing)
IsFree(body, name) == name \notin DeclaredNames(body)
ScopeGlobals(body) ==
    LET refs == Distinct(References(body, 1), 1)
    IN SelectSeq(refs, LAMBDA name : IsFree(body, name))

\* a Var as add_var receives it: the flags not given are undefined
NewVar(name) ==
    [name |-> name, module |-> FALSE, global |-> FALSE, hoistable |-> FALSE,
     writable |-> FALSE, injected |-> FALSE, initialised |-> FALSE,
     referenced |-> FALSE, referenced_from_script |-> FALSE, subscribable |-> FALSE,
     mutated |-> FALSE, reassigned |-> FALSE, export_name |-> FALSE,
     is_reactive_dependency |-> FALSE]

\* lines 193-196: vars.push(variable); var_lookup.set(variable.name, variable)
add_var(vs, variable) == Append(vs, variable)

\* var_lookup.get(name): the position in vars of the entry set last for the
\* name, 0 when the Map has none
var_lookup(vs, name) ==
    LET found == {i \in 1..Len(vs) : vs[i].name = name}
    IN IF found = {} THEN 0 ELSE CHOOSE i \in found : \A j \in found : j <= i

\* lines 202-232, add_reference (used_names is not followed)
add_reference(vs, name) ==
    LET k == var_lookup(vs, name)
        stored == var_lookup(vs, Tail(name))
        injected == [NewVar(name) EXCEPT !.injected = TRUE, !.referenced = TRUE]
    IN IF k # 0 THEN [vs EXCEPT ![k].referenced = TRUE]
       ELSE IF name = PropsName THEN add_var(vs, injected)
       ELSE IF IsDollar(name)
       THEN LET added == add_var(vs, [injected EXCEPT !.mutated = TRUE, !.writable = TRUE])
            IN IF stored # 0
               THEN [added EXCEPT ![stored].referenced = TRUE, ![stored].subscribable = TRUE]
               ELSE added
       ELSE vs

\* the outcome of a pass: it returned, or this.error threw
Passed(vs, ws, body) == [ok |-> TRUE, code |-> "", vars |-> vs, warnings |-> ws, body |-> body]
Failed(code, vs, ws, body) == [ok |-> FALSE, code |-> code, vars |-> vs, warnings |-> ws, body |-> body]

RECURSIVE AddDeclarations(_, _, _, _)
\* lines 603-619 (module script) and 688-709 (instance script, whose
\* declarations are no imports): one Var per declaration of the scope, the
\* whole pass failing on a name that starts with '$'
AddDeclarations(vs, decls, k, module) ==
    IF k > Len(decls) THEN [ok |-> TRUE, vars |-> vs]
    ELSE IF IsDollar(decls[k].name) THEN [ok |-> FALSE, vars |-> vs]
    ELSE LET node == decls[k].node
             name == decls[k].name
             writable == node.type = "VariableDeclaration" /\ node.kind \in {"var", "let"}
             initialised ==
                 \/ node.type = "FunctionDeclaration"
                 \/ \E d \in 1..Len(node.declarators) :
                       node.declarators[d].name = name /\ node.declarators[d].init # "none"
             variable ==
                 IF module
                 THEN [NewVar(name) EXCEPT !.module = TRUE, !.hoistable = TRUE,
                                           !.writable = writable]
                 ELSE [NewVar(name) EXCEPT !.initialised = initialised, !.writable = writable]
         IN AddDeclarations(add_var(vs, variable), decls, k + 1, module)

RECURSIVE AddModuleGlobals(_, _, _)
\* lines 621-634
AddModuleGlobals(vs, globals, k) ==
    IF k > Len(globals) THEN [ok |-> TRUE, vars |-> vs]
    ELSE IF IsDollar(globals[k]) THEN [ok |-> FALSE, vars |-> vs]
    ELSE AddModuleGlobals(
             add_var(vs, [NewVar(globals[k]) EXCEPT !.global = TRUE, !.hoistable = TRUE]),
             globals, k + 1)

\* the test of lines 520 and 548
UnusedExportLet(variable) ==
    variable.writable /\ ~(variable.referenced \/ variable.referenced_from_script
                                               \/ variable.subscribable)

RECURSIVE ExportDeclarators(_, _, _, _)
\* lines 513-527: export_name for each declared name, and the warning
ExportDeclarators(vs, ws, declarators, k) ==
    IF k > Len(declarators) THEN [vars |-> vs, warnings |-> ws]
    ELSE LET name == declarators[k].name
             v == var_lookup(vs, name)
         IN ExportDeclarators([vs EXCEPT ![v].export_name = TRUE],
                              IF UnusedExportLet(vs[v]) THEN Append(ws, name) ELSE ws,
                              declarators, k + 1)

\* lines 501-537 for `export` in front of a variable declaration: the
\* declaration takes the place of the export
extract_exports(vs, ws, node) ==
    LET r == ExportDeclarators(vs, ws, node.declarators, 1)
    IN [vars |-> r.vars, warnings |-> r.warnings, node |-> [node EXCEPT !.exported = FALSE]]

RECURSIVE ModuleExports(_, _, _, _)
\* lines 637-657: the body from its last statement to its first
ModuleExports(vs, ws, body, i) ==
    IF i = 0 THEN Passed(vs, ws, body)
    ELSE IF body[i].exported
    THEN LET r == extract_exports(vs, ws, body[i])
         IN ModuleExports(r.vars, r.warnings, [body EXCEPT ![i] = r.node], i - 1)
    ELSE ModuleExports(vs, ws, body, i - 1)

\* lines 577-658
walk_module_js(vs, ws, body) ==
    LET declared == AddDeclarations(vs, ScopeDeclarations(body, 1), 1, TRUE)
        globals == AddModuleGlobals(declared.vars, ScopeGlobals(body), 1)
    IN IF body = <<>> THEN Passed(vs, ws, body)
       ELSE IF ~declared.ok THEN Failed("illegal-declaration", declared.vars, ws, body)
       ELSE IF ~globals.ok THEN Failed("illegal-subscription", globals.vars, ws, body)
       ELSE ModuleExports(globals.vars, ws, body, Len(body))

\* lines 665-679: the names on the left of the reactive assignments that
\* var_lookup does not know yet (it holds the module script's variables)
injected_reactive_declaration_vars(vs, body) ==
    {body[k].name : k \in {j \in 1..Len(body) :
        /\ body[j].type = "LabeledStatement"
        /\ ~body[j].member
        /\ var_lookup(vs, body[j].name) = 0
        /\ ~IsDollar(body[j].name)}}

\* the branches of lines 714-761 with the store subscriptions tested first
AddGlobal_StoreFirst(vs, name, injected) ==
    IF var_lookup(vs, name) # 0 THEN [ok |-> TRUE, vars |-> vs]
    ELSE IF IsDollar(name)
    THEN IF Len(name) = 1 \/ name[2] = "$" THEN [ok |-> FALSE, vars |-> vs]
         ELSE [ok |-> TRUE,
               vars |-> add_var(vs, [NewVar(name) EXCEPT !.injected = TRUE, !.mutated = TRUE,
                                                         !.writable = TRUE])]
    ELSE [ok |-> TRUE,
          vars |-> add_var(vs, [NewVar(name) EXCEPT !.global = TRUE, !.hoistable = TRUE])]

\* lines 712-762: one entry of globals
AddGlobal(vs, name, injected) ==
    IF var_lookup(vs, name) # 0 THEN [ok |-> TRUE, vars |-> vs]
    ELSE IF name \in injected
    THEN [ok |-> TRUE,
          vars |-> add_var(vs, [NewVar(name) EXCEPT !.injected = TRUE, !.writable = TRUE,
                                                    !.reassigned = TRUE,
                                                    !.initialised = TRUE])]
    ELSE IF name = PropsName
    THEN [ok |-> TRUE, vars |-> add_var(vs, [NewVar(name) EXCEPT !.injected = TRUE])]
    ELSE IF IsDollar(name)
    THEN IF Len(name) = 1 \/ name[2] = "$" THEN [ok |-> FALSE, vars |-> vs]
         ELSE LET added == add_var(vs, [NewVar(name) EXCEPT !.injected = TRUE,
                                                            !.mutated = TRUE,
                                                            !.writable = TRUE])
                  referenced == add_reference(added, Tail(name))
                  v == var_lookup(referenced, Tail(name))
              IN [ok |-> TRUE,
                  vars |-> IF v # 0
                           THEN [referenced EXCEPT ![v].subscribable = TRUE,
                                                   ![v].referenced_from_script = TRUE]
                           ELSE referenced]
    ELSE [ok |-> TRUE,
          vars |-> add_var(vs, [NewVar(name) EXCEPT !.global = TRUE, !.hoistable = TRUE])]

RECURSIVE AddInstanceGlobals(_, _, _, _)
\* lines 711-763: globals.forEach, ended by the error of line 739
AddInstanceGlobals(vs, globals, k, injected) ==
    IF k > Len(globals) THEN [ok |-> TRUE, vars |-> vs]
    ELSE LET added == AddGlobal(vs, globals[k], injected)
         IN IF added.ok THEN AddInstanceGlobals(added.vars, globals, k + 1, injected)
            ELSE added

\* the names some statement of the script assigns to
Assigned(body) == UNION {body[k].assigns : k \in 1..Len(body)}
\* the names some statement of the script assigns to by a member path
Mutated(body) ==
    {body[k].name : k \in {j \in 1..Len(body) :
                               body[j].type = "LabeledStatement" /\ body[j].member}}
\* the names some statement of the script uses as a reference
Referenced(body) == {References(body, 1)[r] : r \in 1..Len(References(body, 1))}

\* lines 868-922: reassigned, mutated and referenced_from_script for the
\* names owned by the instance scope, on the entries var_lookup gives for them
track_references_and_mutations(vs, body) ==
    [i \in 1..Len(vs) |->
        IF i = var_lookup(vs, vs[i].name) /\ vs[i].name \in DeclaredNames(body)
        THEN [vs[i] EXCEPT
                 !.reassigned = @ \/ vs[i].name \in Assigned(body),
                 !.mutated = @ \/ vs[i].name \in Mutated(body),
                 !.referenced_from_script = @ \/ vs[i].name \in Referenced(body)]
        ELSE vs[i]]

\* lines 660-766
walk_instance_js_pre_template(vs, ws, body) ==
    LET declared == AddDeclarations(vs, ScopeDeclarations(body, 1), 1, FALSE)
        globals == AddInstanceGlobals(declared.vars, ScopeGlobals(body), 1,
                                      injected_reactive_declaration_vars(vs, body))
    IN IF body = <<>> THEN Passed(vs, ws, body)
       ELSE IF ~declared.ok THEN Failed("illegal-declaration", declared.vars, ws, body)
       ELSE IF ~globals.ok THEN Failed("illegal-global", globals.vars, ws, body)
       ELSE Passed(track_references_and_mutations(globals.vars, body), ws, body)

RECURSIVE AddReferences(_, _, _)
\* new Fragment(component, ast.html): add_reference for each name the
\* template refers to
AddReferences(vs, names, k) ==
    IF k > Len(names) THEN vs
    ELSE AddReferences(add_reference(vs, names[k]), names, k + 1)

RECURSIVE InstanceExports(_, _, _, _)
\* lines 801-845: the exports of the instance script, first to last
InstanceExports(vs, ws, body, i) ==
    IF i > Len(body) THEN Passed(vs, ws, body)
    ELSE IF body[i].exported
    THEN LET r == extract_exports(vs, ws, body[i])
         IN InstanceExports(r.vars, r.warnings, [body EXCEPT ![i] = r.node], i + 1)
    ELSE InstanceExports(vs, ws, body, i + 1)

\* lines 785-865
post_template_walk(vs, ws, body) == InstanceExports(vs, ws, body, 1)

\* the names of the instance scope: create_scopes ran on the script before
\* anything was hoisted out of its body
InstanceScope(body, hoisted) == DeclaredNames(body) \cup DeclaredNames(hoisted)

\* lines 1095-1122 without the test of compile_options.dev
all_hoistable_AnyKind(vs, node, is_dev) ==
    \A d \in 1..Len(node.declarators) :
        LET name == node.declarators[d].name
            v == vs[var_lookup(vs, name)]
        IN /\ node.declarators[d].init = "Literal"
           /\ ~v.reassigned
           /\ ~v.export_name
           /\ ~\E i \in 1..Len(vs) : vs[i].name = name /\ vs[i].module

\* lines 1095-1122: node.declarations.every(...)
all_hoistable(vs, node, is_dev) ==
    \A d \in 1..Len(node.declarators) :
        LET name == node.declarators[d].name
            v == vs[var_lookup(vs, name)]
        IN /\ node.declarators[d].init = "Literal"
           /\ ~(node.kind # "const" /\ is_dev)
           /\ ~v.reassigned
           /\ ~v.export_name
           /\ ~\E i \in 1..Len(vs) : vs[i].name = name /\ vs[i].module

\* variable.hoistable = true for each of the names, on the entry var_lookup gives
MarkHoistable(vs, names) ==
    [i \in 1..Len(vs) |->
        IF i = var_lookup(vs, vs[i].name) /\ vs[i].name \in names
        THEN [vs[i] EXCEPT !.hoistable = TRUE] ELSE vs[i]]

\* body.splice(i, 1) for the 1-based position i; position 0 stands for the
\* -1 of indexOf, for which splice removes the last element
Splice(body, i) ==
    IF body = <<>> THEN body
    ELSE IF i = 0 THEN SubSeq(body, 1, Len(body) - 1)
    ELSE SubSeq(body, 1, i - 1) \o SubSeq(body, i + 1, Len(body))

\* body.indexOf(node)
IndexOf(body, node) ==
    LET found == {i \in 1..Len(body) : body[i] = node}
    IN IF found = {} THEN 0 ELSE CHOOSE i \in found : \A j \in found : i <= j

Hoisting(vs, body, hoisted) == [vars |-> vs, body |-> body, hoisted |-> hoisted]

RECURSIVE HoistVariables(_, _, _, _, _)
\* lines 1090-1138: the loop over the body for the variable declarations
HoistVariables(vs, body, hoisted, i, is_dev) ==
    IF i > Len(body) THEN Hoisting(vs, body, hoisted)
    ELSE IF body[i].type = "VariableDeclaration" /\ all_hoistable(vs, body[i], is_dev)
    THEN HoistVariables(
             MarkHoistable(vs, {body[i].declarators[d].name : d \in 1..Len(body[i].declarators)}),
             Splice(body, i), Append(hoisted, body[i]), i, is_dev)
    ELSE HoistVariables(vs, body, hoisted, i + 1, is_dev)

\* lines 1140-1150: top_level_function_declarations, in the order of the body
TopLevelFunctions(body) == SelectSeq(body, LAMBDA node : node.type = "FunctionDeclaration")

RECURSIVE is_hoistable(_, _, _, _, _)
\* lines 1157-1231: fn refers to nothing of the instance scope but itself,
\* hoistable variables and hoistable functions; a function met again while
\* it is being walked is not hoistable
is_hoistable(vs, scope, fns, fn, walking) ==
    \A r \in 1..Len(fn.refs) :
        LET name == fn.refs[r]
            variable == vs[var_lookup(vs, name)]
            others == {k \in 1..Len(fns) : fns[k].name = name}
            other == fns[CHOOSE k \in others : TRUE]
        IN IF IsDollar(name) /\ name \notin scope THEN FALSE
           ELSE IF name \in scope
           THEN /\ ~(variable.reassigned \/ variable.mutated)
                /\ \/ name = fn.name
                   \/ variable.hoistable
                   \/ /\ others # {}
                      /\ other.name \notin walking \cup {fn.name}
                      /\ is_hoistable(vs, scope, fns, other, walking \cup {fn.name})
           ELSE TRUE

RECURSIVE HoistFunctions(_, _, _, _, _, _)
\* lines 1233-1243: the loop over top_level_function_declarations
HoistFunctions(vs, body, hoisted, scope, fns, k) ==
    IF k > Len(fns) THEN Hoisting(vs, body, hoisted)
    ELSE IF is_hoistable(vs, scope, fns, fns[k], {})
    THEN HoistFunctions(MarkHoistable(vs, {fns[k].name}),
                        Splice(body, IndexOf(body, fns[k])),
                        Append(hoisted, fns[k]), scope, fns, k + 1)
    ELSE HoistFunctions(vs, body, hoisted, scope, fns, k + 1)

\* lines 1074-1244 without the body.splice of lines 1135 and 1240
hoist_instance_declarations_KeepBody(vs, body, hoisted, is_dev) ==
    LET variables == HoistVariables(vs, body, hoisted, 1, is_dev)
        functions == HoistFunctions(variables.vars, variables.body, variables.hoisted,
                                    InstanceScope(body, hoisted),
                                    TopLevelFunctions(variables.body), 1)
    IN Hoisting(functions.vars, body, functions.hoisted)

\* lines 1074-1244
hoist_instance_declarations(vs, body, hoisted, is_dev) ==
    LET variables == HoistVariables(vs, body, hoisted, 1, is_dev)
    IN HoistFunctions(variables.vars, variables.body, variables.hoisted,
                      InstanceScope(body, hoisted), TopLevelFunctions(variables.body), 1)

(***************************************************************************)
(* Component: the scripts and the template handed to the constructor       *)
(***************************************************************************)
NameA == <<"a">>
NameB == <<"b">>
NameF == <<"f">>
NameG == <<"g">>
StoreA == <<"$", "a">>

\* no script declares a name twice
WellFormed(body) ==
    \A i, j \in 1..Len(ScopeDeclarations(body, 1)) :
        i # j => ScopeDeclarations(body, 1)[i].name # ScopeDeclarations(body, 1)[j].name

\* let a = 1; export let a; export const a = 1; let $a = 1; let b;
\* function f() { a }; $a; a = 2
InstanceStatements ==
    {VariableDeclaration("let", <<Declarator(NameA, "Literal")>>, FALSE),
     VariableDeclaration("let", <<Declarator(NameA, "none")>>, TRUE),
     VariableDeclaration("const", <<Declarator(NameA, "Literal")>>, TRUE),
     VariableDeclaration("let", <<Declarator(StoreA, "Literal")>>, FALSE),
     VariableDeclaration("let", <<Declarator(NameB, "none")>>, FALSE),
     FunctionDeclaration(NameF, <<NameA>>),
     ExpressionStatement(<<StoreA>>, {}),
     ExpressionStatement(<<NameA>>, {NameA})}

\* no module script; let a = 1; export let a; export const a = 1; let $a; a;
\* $a
ModuleScripts ==
    {<<>>,
     <<VariableDeclaration("let", <<Declarator(NameA, "Literal")>>, FALSE)>>,
     <<VariableDeclaration("let", <<Declarator(NameA, "none")>>, TRUE)>>,
     <<VariableDeclaration("const", <<Declarator(NameA, "Literal")>>, TRUE)>>,
     <<VariableDeclaration("let", <<Declarator(StoreA, "none")>>, FALSE)>>,
     <<ExpressionStatement(<<NameA>>, {})>>,
     <<ExpressionStatement(<<StoreA>>, {})>>}

\* the names a template refers to: none; {a}; {$a}
Templates == {<<>>, <<NameA>>, <<StoreA>>}

\* const a = 1; let a = 1; let a = f(); export let a = 1; const a = 1, b = 2;
\* const a = 1, b = g(); let b = 1; b = 2; function f() {}; function f() { a };
\* function f() { g() }; function f() { f() }; function g() { f() };
\* function g() { b }
HoistStatements ==
    {VariableDeclaration("const", <<Declarator(NameA, "Literal")>>, FALSE),
     VariableDeclaration("let", <<Declarator(NameA, "Literal")>>, FALSE),
     VariableDeclaration("let", <<Declarator(NameA, "CallExpression")>>, FALSE),
     VariableDeclaration("let", <<Declarator(NameA, "Literal")>>, TRUE),
     VariableDeclaration("const", <<Declarator(NameA, "Literal"), Declarator(NameB, "Literal")>>, FALSE),
     VariableDeclaration("const", <<Declarator(NameA, "Literal"), Declarator(NameB, "CallExpression")>>, FALSE),
     VariableDeclaration("let", <<Declarator(NameB, "Literal")>>, FALSE),
     ExpressionStatement(<<NameB>>, {NameB}),
     FunctionDeclaration(NameF, <<>>),
     FunctionDeclaration(NameF, <<NameA>>),
     FunctionDeclaration(NameF, <<NameG>>),
     FunctionDeclaration(NameF, <<NameF>>),
     FunctionDeclaration(NameG, <<NameF>>),
     FunctionDeclaration(NameG, <<NameB>>)}

\* no module script; let a = 1
HoistModuleScripts ==
    {<<>>, <<VariableDeclaration("let", <<Declarator(NameA, "Literal")>>, FALSE)>>}

Dollar == <<"$">>
DollarDollarX == <<"$", "$", "x">>

\* let a; a; g; $a; $$props; $; $$x; $: b = 1; $: b.x = 1; $: a = $a
GlobalStatements ==
    {VariableDeclaration("let", <<Declarator(NameA, "none")>>, FALSE),
     ExpressionStatement(<<NameA>>, {}),
     ExpressionStatement(<<NameG>>, {}),
     ExpressionStatement(<<StoreA>>, {}),
     ExpressionStatement(<<PropsName>>, {}),
     ExpressionStatement(<<Dollar>>, {}),
     ExpressionStatement(<<DollarDollarX>>, {}),
     LabeledStatement(NameB, FALSE, <<NameB>>),
     LabeledStatement(NameB, TRUE, <<NameB>>),
     LabeledStatement(NameA, FALSE, <<NameA, StoreA>>)}

\* no module script; let a = 1; let b
GlobalModuleScripts ==
    {<<>>,
     <<VariableDeclaration("let", <<Declarator(NameA, "Literal")>>, FALSE)>>,
     <<VariableDeclaration("let", <<Declarator(NameB, "none")>>, FALSE)>>}

ConstructorStart ==
    /\ vars = <<>>
    /\ has_slots = FALSE
    /\ context = <<>>
    /\ context_overflow = FALSE
    /\ registration = <<>>
    /\ r_pc = "idle"
    /\ render_calls = 0
    /\ dirty_names = <<>>
    /\ dirty_out = NoDirty
    /\ ReactiveIdle
    /\ ParserIdle
    /\ SideIdle
    /\ warnings = <<>>
    /\ fully_hoisted = <<>>
    /\ a_pc = "module"
    /\ a_error = ""

AnalysisInit ==
    /\ ConstructorStart
    /\ module_body \in ModuleScripts
    /\ instance_body \in {body \in SeqsOf(InstanceStatements, MaxStatements) : WellFormed(body)}
    /\ template_refs \in Templates
    /\ dev = FALSE

GlobalsInit ==
    /\ ConstructorStart
    /\ module_body \in GlobalModuleScripts
    /\ instance_body \in {body \in SeqsOf(GlobalStatements, MaxStatements) : WellFormed(body)}
    /\ template_refs = <<>>
    /\ dev = FALSE

HoistInit ==
    /\ ConstructorStart
    /\ module_body \in HoistModuleScripts
    /\ instance_body \in {body \in SeqsOf(HoistStatements, MaxStatements) : WellFormed(body)}
    /\ template_refs = <<>>
    /\ dev \in BOOLEAN

(***************************************************************************)
(* Component: the constructor, lines 177-185                               *)
(***************************************************************************)
rrest == <<has_slots, context, context_overflow, registration, r_pc, render_calls,
           dirty_names, dirty_out>>

\* a pass ends: the next one is due, or the error it threw ends the constructor
Pass(result, next) ==
    /\ vars' = result.vars
    /\ warnings' = result.warnings
    /\ IF result.ok
       THEN a_pc' = next /\ a_error' = ""
       ELSE a_pc' = "error" /\ a_error' = result.code

\* line 178
WalkModuleJs ==
    /\ a_pc = "module"
    /\ LET result == walk_module_js(vars, warnings, module_body)
       IN Pass(result, "instance") /\ module_body' = result.body
    /\ UNCHANGED <<instance_body, template_refs, dev, fully_hoisted, rrest, xvars, pvars, svars>>

\* line 179
WalkInstanceJsPreTemplate ==
    /\ a_pc = "instance"
    /\ Pass(walk_instance_js_pre_template(vars, warnings, instance_body), "fragment")
    /\ UNCHANGED <<module_body, instance_body, template_refs, dev, fully_hoisted,
                   rrest, xvars, pvars, svars>>

\* line 182
NewFragment ==
    /\ a_pc = "fragment"
    /\ Pass(Passed(AddReferences(vars, template_refs, 1), warnings, <<>>), "post")
    /\ UNCHANGED <<module_body, instance_body, template_refs, dev, fully_hoisted,
                   rrest, xvars, pvars, svars>>

\* line 185, walk_instance_js_post_template: line 774
PostTemplateWalk ==
    /\ a_pc = "post"
    /\ LET result == post_template_walk(vars, warnings, instance_body)
       IN Pass(result, "hoist") /\ instance_body' = result.body
    /\ UNCHANGED <<module_body, template_refs, dev, fully_hoisted, rrest, xvars, pvars, svars>>

\* hoist_instance_declarations on the state as it is
Hoist(next) ==
    LET result == hoist_instance_declarations(vars, instance_body, fully_hoisted, dev)
    IN /\ vars' = result.vars
       /\ instance_body' = result.body
       /\ fully_hoisted' = result.hoisted
       /\ a_pc' = next
       /\ UNCHANGED <<module_body, template_refs, dev, warnings, a_error, rrest, xvars, pvars, svars>>

\* line 777
HoistInstanceDeclarations == a_pc = "hoist" /\ Hoist("done")

\* hoist_instance_declarations run a second time
HoistAgain == a_pc = "done" /\ Hoist("again")

AnalysisNext ==
    \/ WalkModuleJs
    \/ WalkInstanceJsPreTemplate
    \/ NewFragment
    \/ PostTemplateWalk
    \/ HoistInstanceDeclarations
    \/ HoistAgain

AnalysisSpec == AnalysisInit /\ [][AnalysisNext]_allvars
HoistSpec == HoistInit /\ [][AnalysisNext]_allvars
GlobalsSpec == GlobalsInit /\ [][AnalysisNext]_allvars

(***************************************************************************)
(* Component: warn, push_ignores, pop_ignores                              *)
(***************************************************************************)
\* the warning codes in use
Codes == {"unused-export-let", "missing-declaration"}

\* lines 1422-1426: a copy of this.ignores (empty while undefined) with the
\* given codes added becomes this.ignores and the top of ignore_stack
push_ignores(ig, st, list) ==
    LET next == (IF ig = <<>> THEN {} ELSE ig[1]) \cup list
    IN [ignores |-> <<next>>, ignore_stack |-> Append(st, next)]

\* lines 1428-1431 without the assignment of line 1430
pop_ignores_KeepIgnores(ig, st) ==
    [ignores |-> ig, ignore_stack |-> SubSeq(st, 1, Len(st) - 1)]

\* lines 1428-1431: this.ignores is the new top of ignore_stack, undefined
\* when the stack is empty
pop_ignores(ig, st) ==
    LET rest == SubSeq(st, 1, Len(st) - 1)
    IN [ignores |-> IF rest = <<>> THEN <<>> ELSE <<rest[Len(rest)]>>,
        ignore_stack |-> rest]

\* lines 453-483: nothing is pushed for a code this.ignores holds
warn(ig, ws, code) ==
    IF ig # <<>> /\ code \in ig[1] THEN ws ELSE Append(ws, code)

\* the codes of the scopes pushed and not yet popped
Active == UNION {open_scopes[k] : k \in 1..Len(open_scopes)}

arest == <<module_body, instance_body, template_refs, dev, fully_hoisted, a_pc, a_error>>

WarnInit ==
    /\ RendererIdle
    /\ ReactiveIdle
    /\ ParserIdle
    /\ AnalysisIdle
    /\ SideIdle

PushIgnores ==
    /\ Len(ignore_stack) < MaxScopes
    /\ \E list \in SUBSET Codes :
           /\ ignores' = push_ignores(ignores, ignore_stack, list).ignores
           /\ ignore_stack' = push_ignores(ignores, ignore_stack, list).ignore_stack
           /\ open_scopes' = Append(open_scopes, list)
    /\ UNCHANGED <<asked, warnings, arest, rvars, xvars, pvars, wrest>>

\* a pop for a push made before
PopIgnores ==
    /\ open_scopes # <<>>
    /\ ignores' = pop_ignores(ignores, ignore_stack).ignores
    /\ ignore_stack' = pop_ignores(ignores, ignore_stack).ignore_stack
    /\ open_scopes' = SubSeq(open_scopes, 1, Len(open_scopes) - 1)
    /\ UNCHANGED <<asked, warnings, arest, rvars, xvars, pvars, wrest>>

Warn ==
    /\ Len(asked) < MaxWarns
    /\ \E code \in Codes :
           /\ warnings' = warn(ignores, warnings, code)
           /\ asked' = Append(asked, [code |-> code, active |-> Active])
    /\ UNCHANGED <<ignores, ignore_stack, open_scopes, arest, rvars, xvars, pvars, wrest>>

WarnNext == PushIgnores \/ PopIgnores \/ Warn

WarnSpec == WarnInit /\ [][WarnNext]_allvars

(***************************************************************************)
(* Component: is_hoistable, call by call                                   *)
(***************************************************************************)
\* the names f, ff, fff, ... of the top-level functions
FnName(n) == [i \in 1..n |-> "f"]

\* what a function body refers to: nothing; b; $a; f; ff and fff; fff and a
RefLists ==
    {<<>>, <<NameB>>, <<StoreA>>, <<FnName(1)>>, <<FnName(2), FnName(3)>>,
     <<FnName(3), NameA>>}

\* top_level_function_declarations, lines 1086 and 1148-1150: the functions
\* of the script in its order, no name declared twice
FunctionLists ==
    {fns \in SeqsOf({FunctionDeclaration(FnName(n), refs) :
                        n \in 1..MaxFunctions, refs \in RefLists}, MaxFunctions) :
        \A i, j \in 1..Len(fns) : fns[i].name = fns[j].name => i = j}

\* the variables of the instance script when the loop over the functions
\* starts: const a = 1 (marked hoistable at line 1128), let b with b = 2
\* somewhere, and the functions
WalkVars(fns) ==
    <<[NewVar(NameA) EXCEPT !.initialised = TRUE, !.hoistable = TRUE],
      [NewVar(NameB) EXCEPT !.writable = TRUE, !.reassigned = TRUE]>>
    \o [k \in 1..Len(fns) |-> [NewVar(fns[k].name) EXCEPT !.initialised = TRUE]]

\* line 1201: walking.has(other_declaration) finds nothing
BeingWalked_Never(name) == FALSE

\* line 1201: walking.has(other_declaration)
BeingWalked(name) == name \in walking_fns

\* a call of is_hoistable: the function, the reference the walk is at, and
\* the local `hoistable`
Call(k) == [fn |-> k, r |-> 1, hoistable |-> TRUE]

WalkInit ==
    /\ RendererIdle
    /\ ReactiveIdle
    /\ ParserIdle
    /\ AnalysisIdle
    /\ WarnIdle
    /\ InvalidateIdle
    /\ NamesIdle
    /\ walk_fns \in FunctionLists
    /\ walking_fns = {}
    /\ walk_stack = <<>>
    /\ walk_k = 1

\* the Renderer variables but vars
WalkFrame == <<has_slots, context, context_overflow, registration, r_pc, render_calls,
               dirty_names, dirty_out, xvars, pvars, avars, hrest>>

\* the variable table is built before the loop over the functions
WalkStart ==
    /\ walk_k = 1
    /\ walk_stack = <<>>
    /\ vars = <<>>
    /\ vars' = WalkVars(walk_fns)
    /\ UNCHANGED <<walk_fns, walking_fns, walk_stack, walk_k, WalkFrame>>

\* lines 1233-1234: is_hoistable(node) for the next function of the Map;
\* line 1169
WalkEnter ==
    /\ vars # <<>>
    /\ walk_stack = <<>>
    /\ walk_k <= Len(walk_fns)
    /\ walk_stack' = <<Call(walk_k)>>
    /\ walking_fns' = walking_fns \cup {walk_fns[walk_k].name}
    /\ UNCHANGED <<vars, walk_fns, walk_k, WalkFrame>>

\* line 1198: top_level_function_declarations.has(name) is false for every name
FunctionAt_None(name) == 0

\* the position in the Map of the function of that name, 0 when it has none
FunctionAt(name) ==
    LET found == {k \in 1..Len(walk_fns) : walk_fns[k].name = name}
    IN IF found = {} THEN 0 ELSE CHOOSE k \in found : TRUE

\* lines 1172-1217: enter for the next reference of the function walked
WalkReference ==
    /\ walk_stack # <<>>
    /\ LET top == walk_stack[Len(walk_stack)]
           fn == walk_fns[top.fn]
           name == fn.refs[top.r]
           owned == name \in {NameA, NameB} \cup {walk_fns[k].name : k \in 1..Len(walk_fns)}
           variable == vars[var_lookup(vars, name)]
           changed == owned /\ (variable.reassigned \/ variable.mutated)
           visited(ok) == [walk_stack EXCEPT ![Len(walk_stack)] =
                              [top EXCEPT !.r = @ + 1, !.hoistable = @ /\ ~changed /\ ok]]
       IN /\ top.r <= Len(fn.refs)
          /\ IF ~top.hoistable THEN walk_stack' = visited(FALSE) /\ walking_fns' = walking_fns
             ELSE IF IsDollar(name) /\ ~owned THEN walk_stack' = visited(FALSE) /\ walking_fns' = walking_fns
             ELSE IF ~owned THEN walk_stack' = visited(TRUE) /\ walking_fns' = walking_fns
             ELSE IF name = fn.name \/ variable.hoistable
             THEN walk_stack' = visited(TRUE) /\ walking_fns' = walking_fns
             ELSE IF FunctionAt(name) = 0 \/ BeingWalked(name)
             THEN walk_stack' = visited(FALSE) /\ walking_fns' = walking_fns
             ELSE /\ Len(walk_stack) < MaxWalkDepth
                  /\ walk_stack' = Append([walk_stack EXCEPT ![Len(walk_stack)].hoistable = @ /\ ~changed],
                                          Call(FunctionAt(name)))
                  /\ walking_fns' = walking_fns \cup {name}
    /\ UNCHANGED <<vars, walk_fns, walk_k, WalkFrame>>

\* lines 1227-1230, and what the caller does with the verdict: line 1208 in
\* is_hoistable, lines 1234-1236 in the loop over the functions
WalkReturn ==
    /\ walk_stack # <<>>
    /\ LET top == walk_stack[Len(walk_stack)]
           fn == walk_fns[top.fn]
           rest == SubSeq(walk_stack, 1, Len(walk_stack) - 1)
       IN /\ top.r > Len(fn.refs)
          /\ walking_fns' = walking_fns \ {fn.name}
          /\ IF rest = <<>>
             THEN /\ walk_stack' = rest
                  /\ walk_k' = walk_k + 1
                  /\ vars' = IF top.hoistable THEN MarkHoistable(vars, {fn.name}) ELSE vars
             ELSE /\ walk_stack' = [rest EXCEPT ![Len(rest)] =
                                       [@ EXCEPT !.r = @ + 1, !.hoistable = @ /\ top.hoistable]]
                  /\ UNCHANGED <<walk_k, vars>>
    /\ UNCHANGED <<walk_fns, WalkFrame>>

WalkNext == WalkStart \/ WalkEnter \/ WalkReference \/ WalkReturn

\* the compiler runs the loop to its end
WalkSpec == WalkInit /\ [][WalkNext]_allvars /\ WF_allvars(WalkNext)

(***************************************************************************)
(* Component: references and assignments under nested scopes               *)
(***************************************************************************)
NameK == <<"k">>
NameO == <<"o">>
NameM == <<"m">>
StoreS == <<"$", "s">>

\* an identifier as the walks meet it: the base name (get_object), what it
\* is to its parent (read: a reference; "=", "+=": the left of an assignment
\* with that operator; "++": the argument of an update expression), whether
\* the parent's operand is a member path (a.b rather than a), and the names
\* the nested scopes around it declare
Occurrence(name, role, deep, inner) ==
    [name |-> name, role |-> role, deep |-> deep, inner |-> inner]

\* the instance script `let a; const k = 1; const o = {};`, a module script
\* `let m;`, the global g and the store subscription $s
ScopedDeclared == {NameA, NameK, NameO}
ScopedVars ==
    <<[NewVar(NameM) EXCEPT !.module = TRUE, !.hoistable = TRUE, !.writable = TRUE],
      [NewVar(NameA) EXCEPT !.writable = TRUE],
      [NewVar(NameK) EXCEPT !.initialised = TRUE],
      [NewVar(NameO) EXCEPT !.initialised = TRUE],
      [NewVar(NameG) EXCEPT !.global = TRUE, !.hoistable = TRUE],
      [NewVar(StoreS) EXCEPT !.injected = TRUE, !.mutated = TRUE, !.writable = TRUE]>>

\* find_owner that looks at the instance scope alone
find_owner_Instance(inner, name) ==
    IF name \in ScopedDeclared THEN "instance" ELSE "none"

\* scope.find_owner(name): the nearest scope declaring the name, from the
\* nested scopes around the identifier out to the instance scope
find_owner(inner, name) ==
    IF name \in inner THEN "nested"
    ELSE IF name \in ScopedDeclared THEN "instance"
    ELSE "none"

\* the identifiers of one statement: each name outside any nested scope, and
\* a and o also inside a function that declares them
Occurrences ==
    {Occurrence(name, role, deep, {}) :
        name \in {NameA, NameK, NameO, NameM, NameG, StoreS},
        role \in {"read", "=", "+=", "++"}, deep \in BOOLEAN}
    \cup {Occurrence(name, role, deep, {name}) :
        name \in {NameA, NameO}, role \in {"read", "=", "+=", "++"}, deep \in BOOLEAN}

\* the body of a `$:` statement, as the identifiers the walk meets in order
ScopedStatements ==
    {occs \in SeqsOf(Occurrences, MaxOccurrences) :
        \A k \in 1..Len(occs) : occs[k].role = "read" => ~occs[k].deep}

RECURSIVE track(_, _, _)
\* lines 877-920 over the identifiers from the k-th on
track(vs, occs, k) ==
    IF k > Len(occs) THEN vs
    ELSE LET occ == occs[k]
             v == var_lookup(vs, occ.name)
             owned == find_owner(occ.inner, occ.name) = "instance"
             assigned ==
                 IF occ.role # "read" /\ owned
                 THEN IF occ.deep THEN [vs EXCEPT ![v].mutated = TRUE]
                      ELSE [vs EXCEPT ![v].reassigned = TRUE]
                 ELSE vs
         IN track(IF owned THEN [assigned EXCEPT ![v].referenced_from_script = TRUE]
                  ELSE assigned,
                  occs, k + 1)

\* lines 1286-1301: an identifier visited as a reference
Reference(acc, occ) ==
    LET v == var_lookup(acc.vars, occ.name)
        owner == find_owner(occ.inner, occ.name)
        is_writable_or_mutated == v # 0 /\ (acc.vars[v].writable \/ acc.vars[v].mutated)
        marked == IF v # 0 THEN [acc.vars EXCEPT ![v].is_reactive_dependency = TRUE]
                  ELSE acc.vars
    IN [acc EXCEPT
           !.vars = marked,
           !.dependencies =
               IF owner \in {"none", "instance"}
                  /\ (IsDollar(occ.name) \/ is_writable_or_mutated)
               THEN AddOnce(@, occ.name) ELSE @]

\* lines 1269-1303: enter for one identifier and its parent
Enter(acc, occ) ==
    IF occ.role = "read" THEN Reference(acc, occ)
    ELSE LET assigned == [acc EXCEPT !.assignees = AddOnce(@, occ.name)]
         IN IF occ.role = "=" THEN assigned
            ELSE IF occ.role = "++" THEN Reference(assigned, occ)
            ELSE [assigned EXCEPT !.dependencies = AddOnce(@, occ.name)]

RECURSIVE ScopedWalk(_, _, _)
\* lines 1263-1310: the walk over the body of one `$:` statement
ScopedWalk(acc, occs, k) ==
    IF k > Len(occs) THEN acc ELSE ScopedWalk(Enter(acc, occs[k]), occs, k + 1)

ScopeInit ==
    /\ RendererIdle
    /\ ParserIdle
    /\ AnalysisIdle
    /\ SideIdle
    /\ reactive_src \in {<<occs>> : occs \in ScopedStatements}
    /\ unsorted = <<>>
    /\ reactive_declarations = <<>>
    /\ x_pc = "declare"
    /\ x_error = ""

\* walk_module_js and the first half of walk_instance_js_pre_template: one
\* variable per declaration, global and store subscription
ScopedDeclare ==
    /\ x_pc = "declare"
    /\ vars' = ScopedVars
    /\ x_pc' = "track"
    /\ UNCHANGED <<reactive_src, unsorted, reactive_declarations, x_error, rrest, pvars,
                   avars, svars>>

\* line 765, track_references_and_mutations
TrackReferencesAndMutations ==
    /\ x_pc = "track"
    /\ vars' = track(vars, reactive_src[1], 1)
    /\ x_pc' = "reactive"
    /\ UNCHANGED <<reactive_src, unsorted, reactive_declarations, x_error, rrest, pvars,
                   avars, svars>>

\* extract_reactive_declarations, lines 1246-1390, for the one statement
ExtractScoped ==
    /\ x_pc = "reactive"
    /\ LET walked == ScopedWalk([assignees |-> <<>>, dependencies |-> <<>>, vars |-> vars],
                                reactive_src[1], 1)
           decls == <<[assignees |-> walked.assignees, dependencies |-> walked.dependencies]>>
       IN /\ vars' = walked.vars
          /\ unsorted' = decls
          /\ IF check_graph_for_cycles(Edges(decls))
             THEN /\ x_pc' = "error"
                  /\ x_error' = "cyclical-reactive-declaration"
                  /\ reactive_declarations' = reactive_declarations
             ELSE /\ x_pc' = "sorted"
                  /\ x_error' = ""
                  /\ reactive_declarations' = AddEach(decls, reactive_declarations, 1)
    /\ UNCHANGED <<reactive_src, rrest, pvars, avars, svars>>

ScopeNext == ScopedDeclare \/ TrackReferencesAndMutations \/ ExtractScoped
ScopeSpec == ScopeInit /\ [][ScopeNext]_allvars

(***************************************************************************)
(* Renderer.invalidate, lines 167-215                                      *)
(***************************************************************************)
\* name[0] === '$' && name[1] !== '$', and name.startsWith('$$'), for the
\* names of the Renderer's components
IsStoreName(name) == name[1] = "$"
IsInternalName(name) == name \in {Props, Scope, Slots}

\* the declaration at position i of component.reactive_declarations
ReactiveDeclaration(i) == unsorted[reactive_declarations[i]]

RECURSIVE AddNames(_, _, _)
\* declaration.dependencies.forEach(name => deps.add(name))
AddNames(deps, names, q) ==
    IF q > Len(names) THEN deps ELSE AddNames(AddOnce(deps, names[q]), names, q + 1)

RECURSIVE AddDependenciesOf(_, _, _)
\* lines 199-206 for one name of deps: the declarations assigning it, in the
\* order of the list
AddDependenciesOf(deps, name, i) ==
    IF i > Len(reactive_declarations) THEN deps
    ELSE IF name \in Elems(ReactiveDeclaration(i).assignees)
    THEN AddDependenciesOf(AddNames(deps, ReactiveDeclaration(i).dependencies, 1), name, i + 1)
    ELSE AddDependenciesOf(deps, name, i + 1)

RECURSIVE Expand(_, _)
\* lines 196-207: deps.forEach over a Set that grows while it is walked
Expand(deps, k) ==
    IF k > Len(deps) THEN deps
    ELSE Expand(AddDependenciesOf(deps, deps[k], 1), k + 1)

\* the calls an expression is made of: the names whose slot each call gives
Expression(form, calls) == [form |-> form, calls |-> calls]

\* invalidate that collects nothing but the name itself
invalidate_OnlyName(ctx, name, value) ==
    LET variable == VarLookup(name)
        has(n) == ContextHas(ctx, n)
    IN IF variable # <<>> /\ variable[1].subscribable
          /\ (variable[1].reassigned \/ variable[1].export_name)
       THEN IF has(name) THEN Expression("subscribe", <<name>>) ELSE Expression("throw", <<>>)
       ELSE IF IsStoreName(name) THEN Expression("set", <<>>)
       ELSE IF variable # <<>> /\ ~variable[1].referenced
               /\ ~variable[1].is_reactive_dependency /\ ~variable[1].export_name
               /\ ~IsInternalName(name)
       THEN Expression("pass", <<>>)
       ELSE IF value # <<>>
       THEN IF has(name) THEN Expression("invalidate", <<name>>) ELSE Expression("throw", <<>>)
       ELSE IF has(name) THEN Expression("sequence", <<name>>) ELSE Expression("null", <<>>)

\* invalidate that tries the pass-through first
invalidate_PassFirst(ctx, name, value) ==
    LET variable == VarLookup(name)
        has(n) == ContextHas(ctx, n)
    IN IF variable # <<>> /\ ~variable[1].referenced
          /\ ~variable[1].is_reactive_dependency /\ ~variable[1].export_name
          /\ ~IsInternalName(name)
       THEN Expression("pass", <<>>)
       ELSE IF variable # <<>> /\ variable[1].subscribable
               /\ (variable[1].reassigned \/ variable[1].export_name)
       THEN IF has(name) THEN Expression("subscribe", <<name>>) ELSE Expression("throw", <<>>)
       ELSE IF IsStoreName(name) THEN Expression("set", <<>>)
       ELSE IF value # <<>>
       THEN IF has(name) THEN Expression("invalidate", <<name>>) ELSE Expression("throw", <<>>)
       ELSE LET filtered == SelectSeq(Expand(<<name>>, 1), has)
            IN IF filtered = <<>> THEN Expression("null", <<>>)
               ELSE Expression("sequence", filtered)

\* lines 167-215; reading member.index of a name without a member throws
invalidate(ctx, name, value) ==
    LET variable == VarLookup(name)
        has(n) == ContextHas(ctx, n)
    IN IF variable # <<>> /\ variable[1].subscribable
          /\ (variable[1].reassigned \/ variable[1].export_name)
       THEN IF has(name) THEN Expression("subscribe", <<name>>) ELSE Expression("throw", <<>>)
       ELSE IF IsStoreName(name) THEN Expression("set", <<>>)
       ELSE IF variable # <<>> /\ ~variable[1].referenced
               /\ ~variable[1].is_reactive_dependency /\ ~variable[1].export_name
               /\ ~IsInternalName(name)
       THEN Expression("pass", <<>>)
       ELSE IF value # <<>>
       THEN IF has(name) THEN Expression("invalidate", <<name>>) ELSE Expression("throw", <<>>)
       ELSE LET filtered == SelectSeq(Expand(<<name>>, 1), has)
            IN IF filtered = <<>> THEN Expression("null", <<>>)
               ELSE Expression("sequence", filtered)

\* a reactive statement as extract_reactive_declarations leaves it: the
\* assignees and dependencies (lines 1269-1301), and the names it visited as
\* references (line 1291)
ReactiveStatement(assignees, dependencies, reads) ==
    [assignees |-> assignees, dependencies |-> dependencies, reads |-> reads]

\* v1 = v2; v2 = v3; v1 += v3; v2 = $v1; v3++
InvalidateStatements ==
    {ReactiveStatement(<<VarName(1)>>, <<VarName(2)>>, {VarName(2)}),
     ReactiveStatement(<<VarName(2)>>, <<VarName(3)>>, {VarName(3)}),
     ReactiveStatement(<<VarName(1)>>, <<VarName(1), VarName(3)>>, {VarName(3)}),
     ReactiveStatement(<<VarName(2)>>, <<StoreName(VarName(1))>>, {StoreName(VarName(1))}),
     ReactiveStatement(<<VarName(3)>>, <<VarName(3)>>, {VarName(3)})}

\* the shapes of v1, v2, v3: unreferenced, referenced, referenced and
\* hoistable, a reassigned store
InvalidateShapes ==
    {Plain, [Plain EXCEPT !.referenced = TRUE],
     [Plain EXCEPT !.referenced = TRUE, !.hoistable = TRUE],
     [Plain EXCEPT !.referenced = TRUE, !.subscribable = TRUE, !.reassigned = TRUE]}

\* line 1291: the variables a reactive statement refers to
IsReactiveDependency(src, name) == \E d \in 1..Len(src) : name \in src[d].reads

\* the component once analysed: its variables, and its reactive
\* declarations in order
InvalidateInit ==
    /\ \E f1 \in InvalidateShapes, f2 \in InvalidateShapes,
          src \in SeqsOf(InvalidateStatements, MaxStatements) :
          LET decls == [i \in 1..Len(src) |->
                           [assignees |-> src[i].assignees,
                            dependencies |-> src[i].dependencies]]
              vs == ComponentVars(3, f1, f2, FALSE)
          IN /\ ~check_graph_for_cycles(Edges(decls))
             /\ reactive_src = src
             /\ unsorted = decls
             /\ reactive_declarations = AddEach(decls, <<>>, 1)
             /\ vars = [i \in 1..Len(vs) |->
                           [vs[i] EXCEPT !.is_reactive_dependency =
                                             IsReactiveDependency(src, vs[i].name)]]
    /\ x_pc = "sorted"
    /\ x_error = ""
    /\ has_slots = FALSE
    /\ context = <<>>
    /\ context_overflow = FALSE
    /\ registration = <<>>
    /\ r_pc = "new"
    /\ render_calls = 0
    /\ dirty_names = <<>>
    /\ dirty_out = NoDirty
    /\ ParserIdle
    /\ AnalysisIdle
    /\ SideIdle

\* a wrapper calls renderer.invalidate while rendering
Invalidate ==
    /\ r_pc = "render"
    /\ inv_out = NoInvalidate
    /\ \E name \in {VarName(1), VarName(2), VarName(3), StoreName(VarName(1)), Props, Unknown},
          value \in {<<>>, <<"value">>} :
          /\ inv_name' = name
          /\ inv_value' = value
          /\ inv_out' = invalidate(context, name, value)
    /\ UNCHANGED <<rvars, xvars, pvars, avars, irest>>

InvalidateNext == Register \/ RenderAdd \/ Allocate \/ Invalidate
InvalidateSpec == InvalidateInit /\ [][InvalidateNext]_allvars

(***************************************************************************)
(* Renderer.invalidate: the routes of lines 172-193                        *)
(***************************************************************************)
\* the shapes of v1: an instance-level variable in the context, with every
\* combination of the flags invalidate reads
RouteShapes == {f \in Flags : ~f.module /\ ~f.hoistable /\ ~f.mutated}

\* v2 = v1; v1 = v2
RouteStatements ==
    {ReactiveStatement(<<VarName(2)>>, <<VarName(1)>>, {VarName(1)}),
     ReactiveStatement(<<VarName(1)>>, <<VarName(2)>>, {VarName(2)})}

\* the injected variables are referenced when add_reference made them
\* (Component.ts, lines 202-232) and not when the walk over the globals of
\* the instance script did (lines 723-745)
RouteVars(f1, props, injected_referenced) ==
    LET vs == ComponentVars(2, f1, [Plain EXCEPT !.referenced = TRUE], props)
    IN [i \in 1..Len(vs) |->
           IF vs[i].name \in {Props, StoreName(VarName(1))}
           THEN [vs[i] EXCEPT !.referenced = injected_referenced]
           ELSE vs[i]]

RouteInit ==
    /\ \E f1 \in RouteShapes, props \in BOOLEAN, injected_referenced \in BOOLEAN,
          src \in SeqsOf(RouteStatements, MaxStatements) :
          LET decls == [i \in 1..Len(src) |->
                           [assignees |-> src[i].assignees,
                            dependencies |-> src[i].dependencies]]
              vs == RouteVars(f1, props, injected_referenced)
          IN /\ ~check_graph_for_cycles(Edges(decls))
             /\ reactive_src = src
             /\ unsorted = decls
             /\ reactive_declarations = AddEach(decls, <<>>, 1)
             /\ vars = [i \in 1..Len(vs) |->
                           [vs[i] EXCEPT !.is_reactive_dependency =
                                             IsReactiveDependency(src, vs[i].name)]]
    /\ x_pc = "sorted"
    /\ x_error = ""
    /\ has_slots = FALSE
    /\ context = <<>>
    /\ context_overflow = FALSE
    /\ registration = <<>>
    /\ r_pc = "new"
    /\ render_calls = 0
    /\ dirty_names = <<>>
    /\ dirty_out = NoDirty
    /\ ParserIdle
    /\ AnalysisIdle
    /\ SideIdle

RouteSpec == RouteInit /\ [][InvalidateNext]_allvars

(***************************************************************************)
(* Component: get_unique_name, get_unique_name_maker, alias                *)
(***************************************************************************)
\* utils/names.ts, lines 60-109: the reserved words
reserved ==
    {<<"a", "r", "g", "u", "m", "e", "n", "t", "s">>,
     <<"a", "w", "a", "i", "t">>,
     <<"b", "r", "e", "a", "k">>,
     <<"c", "a", "s", "e">>,
     <<"c", "a", "t", "c", "h">>,
     <<"c", "l", "a", "s", "s">>,
     <<"c", "o", "n", "s", "t">>,
     <<"c", "o", "n", "t", "i", "n", "u", "e">>,
     <<"d", "e", "b", "u", "g", "g", "e", "r">>,
     <<"d", "e", "f", "a", "u", "l", "t">>,
     <<"d", "e", "l", "e", "t", "e">>,
     <<"d", "o">>,
     <<"e", "l", "s", "e">>,
     <<"e", "n", "u", "m">>,
     <<"e", "v", "a", "l">>,
     <<"e", "x", "p", "o", "r", "t">>,
     <<"e", "x", "t", "e", "n", "d", "s">>,
     <<"f", "a", "l", "s", "e">>,
     <<"f", "i", "n", "a", "l", "l", "y">>,
     <<"f", "o", "r">>,
     <<"f", "u", "n", "c", "t", "i", "o", "n">>,
     <<"i", "f">>,
     <<"i", "m", "p", "l", "e", "m", "e", "n", "t", "s">>,
     <<"i", "m", "p", "o", "r", "t">>,
     <<"i", "n">>,
     <<"i", "n", "s", "t", "a", "n", "c", "e", "o", "f">>,
     <<"i", "n", "t", "e", "r", "f", "a", "c", "e">>,
     <<"l", "e", "t">>,
     <<"n", "e", "w">>,
     <<"n", "u", "l", "l">>,
     <<"p", "a", "c", "k", "a", "g", "e">>,
     <<"p", "r", "i", "v", "a", "t", "e">>,
     <<"p", "r", "o", "t", "e", "c", "t", "e", "d">>,
     <<"p", "u", "b", "l", "i", "c">>,
     <<"r", "e", "t", "u", "r", "n">>,
     <<"s", "t", "a", "t", "i", "c">>,
     <<"s", "u", "p", "e", "r">>,
     <<"s", "w", "i", "t", "c", "h">>,
     <<"t", "h", "i", "s">>,
     <<"t", "h", "r", "o", "w">>,
     <<"t", "r", "u", "e">>,
     <<"t", "r", "y">>,
     <<"t", "y", "p", "e", "o", "f">>,
     <<"v", "a", "r">>,
     <<"v", "o", "i", "d">>,
     <<"w", "h", "i", "l", "e">>,
     <<"w", "i", "t", "h">>,
     <<"y", "i", "e", "l", "d">>}

\* the names svelte/internal exports; noop stands for them
internal_exports == {<<"n", "o", "o", "p">>}

\* `${i}`: the decimal digits of a positive number
Digit(d) == <<"0", "1", "2", "3", "4", "5", "6", "7", "8", "9">>[d + 1]
RECURSIVE ToDecimal(_)
ToDecimal(i) == IF i < 10 THEN <<Digit(i)>> ELSE ToDecimal(i \div 10) \o <<Digit(i % 10)>>

\* lines 382 and 416: in the test environment the name gets a `$`
TestName(name) == IF n_test THEN name \o <<"$">> ELSE name

\* the alias the loops try in round i: name, then `${name}_${i}`
Candidate(name, i) == IF i = 0 THEN name ELSE name \o <<"_">> \o ToDecimal(i)

\* the get_unique_name loop looking at var_lookup and used_names only
Taken_NoGlobal(alias, scope) ==
    \/ alias \in reserved
    \/ alias \in lookup_names
    \/ alias \in used_names
    \/ scope # <<>> /\ alias \in scope[1]

\* lines 385-391: the condition of the get_unique_name loop; scope is <<>>
\* when no scope is passed, else <<the names the scope has>>
Taken(alias, scope) ==
    \/ alias \in reserved
    \/ alias \in lookup_names
    \/ alias \in used_names
    \/ alias \in globally_used_names
    \/ scope # <<>> /\ alias \in scope[1]

RECURSIVE unique_alias(_, _, _)
unique_alias(name, i, scope) ==
    IF Taken(Candidate(name, i), scope)
    THEN unique_alias(name, i + 1, scope)
    ELSE Candidate(name, i)

\* lines 380-396: the name of the identifier returned
get_unique_name(name, scope) == unique_alias(TestName(name), 0, scope)

\* lines 405-413: the local_used_names a new generator starts with
NewLocalNames == reserved \cup internal_exports \cup lookup_names

RECURSIVE local_alias(_, _, _)
local_alias(name, i, local) ==
    IF Candidate(name, i) \in used_names \/ Candidate(name, i) \in local
    THEN local_alias(name, i + 1, local)
    ELSE Candidate(name, i)

\* lines 415-430: the name generator k returns
maker_name(k, name) == local_alias(TestName(name), 0, local_used_names[k])

\* this.aliases.has(name) and this.aliases.get(name)
HasAlias(name) == \E a \in aliases : a[1] = name
GetAlias(name) == (CHOOSE a \in aliases : a[1] = name)[2]

\* the names asked about and the scopes passed
NameInputs == {<<"x">>, <<"x", "_", "1">>, <<"i", "f">>}
ScopeInputs == {<<>>, <<{<<"x">>, <<"x", "_", "1">>}>>}

Called(op, name, scope, result) ==
    /\ n_last' = [op |-> op, name |-> name, scope |-> scope, result |-> result]
    /\ n_calls' = n_calls + 1

NameInit ==
    /\ RendererIdle
    /\ ReactiveIdle
    /\ ParserIdle
    /\ AnalysisIdle
    /\ WarnIdle /\ WalkIdle /\ InvalidateIdle
    /\ n_test \in BOOLEAN
    /\ NamesFresh

\* line 195, add_var: the variable enters var_lookup
AddVarName ==
    /\ n_calls < MaxNameCalls
    /\ \E name \in NameInputs :
          /\ lookup_names' = lookup_names \cup {name}
          /\ Called("add_var", name, <<>>, <<>>)
    /\ UNCHANGED <<n_test, used_names, globally_used_names, local_used_names, aliases,
                   handed, made, aliased, rvars, xvars, pvars, avars, nrest>>

\* lines 202-232, add_reference of a name without `$`: a name that is no
\* variable enters used_names
AddReferenceName ==
    /\ n_calls < MaxNameCalls
    /\ \E name \in NameInputs :
          /\ used_names' = IF name \in lookup_names THEN used_names
                           ELSE used_names \cup {name}
          /\ Called("add_reference", name, <<>>, <<>>)
    /\ UNCHANGED <<n_test, lookup_names, globally_used_names, local_used_names, aliases,
                   handed, made, aliased, rvars, xvars, pvars, avars, nrest>>

\* lines 380-396
GetUniqueName ==
    /\ n_calls < MaxNameCalls
    /\ \E name \in NameInputs, scope \in ScopeInputs :
          LET alias == get_unique_name(name, scope)
          IN /\ used_names' = used_names \cup {alias}
             /\ handed' = handed \cup {alias}
             /\ Called("get_unique_name", name, scope, alias)
    /\ UNCHANGED <<n_test, lookup_names, globally_used_names, local_used_names, aliases,
                   made, aliased, rvars, xvars, pvars, avars, nrest>>

\* lines 404-413: a generator is made
GetUniqueNameMaker ==
    /\ n_calls < MaxNameCalls
    /\ local_used_names' = Append(local_used_names, NewLocalNames)
    /\ Called("get_unique_name_maker", <<>>, <<>>, <<>>)
    /\ UNCHANGED <<n_test, lookup_names, used_names, globally_used_names, aliases,
                   handed, made, aliased, rvars, xvars, pvars, avars, nrest>>

\* lines 415-430: a generator is asked for a name
MakeName ==
    /\ n_calls < MaxNameCalls
    /\ \E k \in 1..Len(local_used_names), name \in NameInputs :
          LET alias == maker_name(k, name)
          IN /\ local_used_names' =
                    [local_used_names EXCEPT ![k] = local_used_names[k] \cup {alias}]
             /\ globally_used_names' = globally_used_names \cup {alias}
             /\ made' = made \cup {alias}
             /\ Called("maker", name, <<>>, alias)
    /\ UNCHANGED <<n_test, lookup_names, used_names, aliases, handed, aliased,
                   rvars, xvars, pvars, avars, nrest>>

\* lines 235-241
Alias ==
    /\ n_calls < MaxNameCalls
    /\ \E name \in NameInputs :
          IF HasAlias(name)
          THEN /\ aliased' = aliased \cup {<<name, GetAlias(name)>>}
               /\ Called("alias", name, <<>>, GetAlias(name))
               /\ UNCHANGED <<aliases, used_names, handed>>
          ELSE LET alias == get_unique_name(name, <<>>)
               IN /\ aliases' = aliases \cup {<<name, alias>>}
                  /\ used_names' = used_names \cup {alias}
                  /\ handed' = handed \cup {alias}
                  /\ aliased' = aliased \cup {<<name, alias>>}
                  /\ Called("alias", name, <<>>, alias)
    /\ UNCHANGED <<n_test, lookup_names, globally_used_names, local_used_names, made,
                   rvars, xvars, pvars, avars, nrest>>

NameNext ==
    AddVarName \/ AddReferenceName \/ GetUniqueName \/ GetUniqueNameMaker \/ MakeName \/ Alias

NameSpec == NameInit /\ [][NameNext]_allvars

(***************************************************************************)
(* Template parser: text primitives (Parser.eat, match, allow_whitespace)  *)
(***************************************************************************)
\* the template is a sequence of characters; index i of the source is tpl[i + 1]
At(tpl, i) == IF i >= 0 /\ i < Len(tpl) THEN tpl[i + 1] ELSE ""
IsWhitespace(c) == c \in {" ", "\t", "\r", "\n"}
IsLower(c) == c \in {"a", "b", "c", "d", "e", "f", "g", "h", "i", "j", "k", "l", "m",
                      "n", "o", "p", "q", "r", "s", "t", "u", "v", "w", "x", "y", "z"}
IsUpper(c) == c \in {"A", "B", "C", "D"}

\* parser.match(str)
Match(tpl, i, str) ==
    i + Len(str) <= Len(tpl) /\ SubSeq(tpl, i + 1, i + Len(str)) = str

\* the smallest index j >= i among the indices in found, Len(tpl) when there is none
First(tpl, i, found) ==
    LET hits == {j \in found : j >= i}
    IN IF hits = {} THEN Len(tpl) ELSE CHOOSE j \in hits : \A k \in hits : j <= k

\* the indices of tpl
Indices(tpl) == 0..(Len(tpl) - 1)

\* parser.allow_whitespace(): the index after the whitespace at i
SkipWs(tpl, i) == First(tpl, i, {j \in Indices(tpl) : ~IsWhitespace(tpl[j + 1])})

\* template.replace(/\s+$/, '')
StripEnd(tpl) ==
    LET keep == {j \in 1..Len(tpl) : ~IsWhitespace(tpl[j])}
    IN IF keep = {} THEN <<>>
       ELSE SubSeq(tpl, 1, CHOOSE j \in keep : \A k \in keep : k <= j)

\* eat(str, true) reporting every mismatch as an unexpected block close
EatError_BlockClose(tpl, i) == "unexpected-block-close"

\* the code of the error eat(str, true) raises at index i
EatError(tpl, i) == IF i = Len(tpl) THEN "unexpected-eof" ELSE "unexpected-token"

\* outcome of a state function: it returned (ok) or parser.error threw
Returned(i, st) ==
    [ok |-> TRUE, index |-> i, stack |-> st, code |-> "", pos |-> -1, evs |-> <<>>]
Thrown(code, pos, i, st) ==
    [ok |-> FALSE, index |-> i, stack |-> st, code |-> code, pos |-> pos, evs |-> <<>>]

\* what a state function did to the nodes: it set the end of the node of a
\* frame, or it created a node (end -1 is the null of a node still open)
Ended(frame, e) ==
    [ev |-> "end", type |-> frame.type, name |-> frame.name, start |-> frame.start,
     end |-> e, ptype |-> "", pstart |-> -1, via |-> "", attributes |-> <<>>,
     context |-> "", elseif |-> frame.elseif, pelseif |-> FALSE,
     data |-> <<>>, trim_before |-> FALSE, trim_after |-> FALSE]
Added(type, name, start, e, parent, via) ==
    [ev |-> "add", type |-> type, name |-> name, start |-> start,
     end |-> e, ptype |-> parent.type, pstart |-> parent.start, via |-> via,
     attributes |-> <<>>, context |-> "", elseif |-> FALSE, pelseif |-> parent.elseif,
     data |-> <<>>, trim_before |-> FALSE, trim_after |-> FALSE]
\* trim_whitespace(block, trim_before, trim_after) was called on the node of a frame
Trimmed(frame, trim_before, trim_after) ==
    [ev |-> "trim", type |-> frame.type, name |-> frame.name, start |-> frame.start,
     end |-> -1, ptype |-> "", pstart |-> -1, via |-> "", attributes |-> <<>>,
     context |-> "", elseif |-> frame.elseif, pelseif |-> FALSE,
     data |-> <<>>, trim_before |-> trim_before, trim_after |-> trim_after]
WithData(ev, data) == [ev EXCEPT !.data = data]
WithAttributes(ev, attrs) == [ev EXCEPT !.attributes = attrs]
WithContext(ev, context_) == [ev EXCEPT !.context = context_]
WithElseif(ev) == [ev EXCEPT !.elseif = TRUE]
Recording(result, evs) == [result EXCEPT !.evs = evs]

Frame(type, name, start, elseif) ==
    [type |-> type, name |-> name, start |-> start, elseif |-> elseif]
Root == Frame("Fragment", <<>>, -1, FALSE)
Current(st) == st[Len(st)]
Pop(st) == SubSeq(st, 1, Len(st) - 1)

\* a template node: its span, the node that holds it (by type, start and
\* elseif, which name a node uniquely) and the property of that node it hangs on
Node(ev) ==
    [type |-> ev.type, name |-> ev.name, start |-> ev.start, end |-> ev.end,
     ptype |-> ev.ptype, pstart |-> ev.pstart, via |-> ev.via,
     attributes |-> ev.attributes, context |-> ev.context,
     elseif |-> ev.elseif, pelseif |-> ev.pelseif, data |-> ev.data]
RootNode ==
    [type |-> "Fragment", name |-> <<>>, start |-> -1, end |-> -1,
     ptype |-> "", pstart |-> -1, via |-> "", attributes |-> <<>>, context |-> "",
     elseif |-> FALSE, pelseif |-> FALSE, data |-> <<>>]

\* node.end = e for the node the event names
SetEnd(ns, ev) ==
    [n \in 1..Len(ns) |->
        IF ns[n].type = ev.type /\ ns[n].start = ev.start /\ ns[n].elseif = ev.elseif
        THEN [ns[n] EXCEPT !.end = ev.end] ELSE ns[n]]

\* utils/trim: the text without its leading, or trailing, whitespace
trim_start(data) == SubSeq(data, SkipWs(data, 0) + 1, Len(data))
trim_end(data) == StripEnd(data)

\* block.children of the node with the given type, start and elseif, as
\* positions in ns, in order; and block.else
Children(ns, type, start, elseif) ==
    LET IsChild(n) == /\ ns[n].via = "children"
                      /\ ns[n].ptype = type /\ ns[n].pstart = start
                      /\ ns[n].pelseif = elseif
    IN SelectSeq([n \in 1..Len(ns) |-> n], IsChild)
ElseOf(ns, type, start, elseif) ==
    LET IsElse(n) == /\ ns[n].via = "else"
                     /\ ns[n].ptype = type /\ ns[n].pstart = start
                     /\ ns[n].pelseif = elseif
    IN SelectSeq([n \in 1..Len(ns) |-> n], IsElse)

\* lines 13-24: the first and the last child of the block, a Text without
\* data taken out of the children
TrimChildren(ns, first, last, trim_before, trim_after) ==
    LET d1 == IF ns[first].type = "Text" /\ trim_before
              THEN trim_start(ns[first].data) ELSE ns[first].data
        shifted == ns[first].type = "Text" /\ trim_before /\ d1 = <<>>
        ns1 == [ns EXCEPT ![first].data = d1]
        d2 == IF ns1[last].type = "Text" /\ trim_after
              THEN trim_end(ns1[last].data) ELSE ns1[last].data
        popped == ns1[last].type = "Text" /\ trim_after /\ d2 = <<>> /\ ~(shifted /\ first = last)
        ns2 == [ns1 EXCEPT ![last].data = d2]
        Kept(n) == ~(shifted /\ n = first) /\ ~(popped /\ n = last)
    IN [k \in 1..Len(SelectSeq([n \in 1..Len(ns2) |-> n], Kept)) |->
           ns2[SelectSeq([n \in 1..Len(ns2) |-> n], Kept)[k]]]

RECURSIVE trim_whitespace(_, _, _, _, _, _)
\* lines 10-33, on the node with the given type, start and elseif
trim_whitespace(ns, type, start, elseif, trim_before, trim_after) ==
    LET children == Children(ns, type, start, elseif)
        else_ == ElseOf(ns, type, start, elseif)
        first_child == ns[children[1]]
        ns1 == TrimChildren(ns, children[1], children[Len(children)], trim_before, trim_after)
        ns2 == IF else_ # <<>>
               THEN trim_whitespace(ns1, "ElseBlock", ns[else_[Len(else_)]].start, FALSE,
                                    trim_before, trim_after)
               ELSE ns1
    IN IF children = <<>> THEN ns
       ELSE IF first_child.elseif
       THEN trim_whitespace(ns2, first_child.type, first_child.start, TRUE,
                            trim_before, trim_after)
       ELSE ns2

RECURSIVE Replay(_, _, _)
\* the nodes after the events evs[k..]
Replay(ns, evs, k) ==
    IF k > Len(evs) THEN ns
    ELSE IF evs[k].ev = "end"
    THEN Replay(SetEnd(ns, evs[k]), evs, k + 1)
    ELSE IF evs[k].ev = "trim"
    THEN Replay(trim_whitespace(ns, evs[k].type, evs[k].start, evs[k].elseif,
                                evs[k].trim_before, evs[k].trim_after), evs, k + 1)
    ELSE Replay(Append(ns, Node(evs[k])), evs, k + 1)

\* utils/html.ts closing_tag_omitted(current, next) for the elements in use:
\* an open <p> is closed by the end of its parent and by a following <p> or <div>
closing_tag_omitted(current, next) ==
    /\ current = <<"p">>
    /\ next = <<>> \/ next \in {<<"p">>, <<"div">>}

\* utils/names.ts lines 112-116 (tag names are lower case here)
VoidElementNames ==
    {<<"a", "r", "e", "a">>, <<"b", "a", "s", "e">>,
     <<"b", "r">>, <<"c", "o", "l">>,
     <<"c", "o", "m", "m", "a", "n", "d">>, <<"e", "m", "b", "e", "d">>,
     <<"h", "r">>, <<"i", "m", "g">>,
     <<"i", "n", "p", "u", "t">>, <<"k", "e", "y", "g", "e", "n">>,
     <<"l", "i", "n", "k">>, <<"m", "e", "t", "a">>,
     <<"p", "a", "r", "a", "m">>, <<"s", "o", "u", "r", "c", "e">>,
     <<"t", "r", "a", "c", "k">>, <<"w", "b", "r">>}

is_void(name) == name \in VoidElementNames

\* parse_expression_at: the node of a name, which parentheses and whitespace
\* may precede (the expressions in use are names); acorn_error otherwise
Acorn(tpl, i) ==
    LET s == First(tpl, i, {j \in Indices(tpl) : tpl[j + 1] # "(" /\ ~IsWhitespace(tpl[j + 1])})
        e == First(tpl, s, {j \in Indices(tpl) : ~IsLower(tpl[j + 1])})
    IN IF e = s THEN [ok |-> FALSE, start |-> s, end |-> s, code |-> "parse-error", pos |-> s]
       ELSE [ok |-> TRUE, start |-> s, end |-> e, code |-> "", pos |-> -1]

RECURSIVE CloseParens(_, _, _)
\* expression.ts lines 51-64: the closing parentheses after the node
CloseParens(tpl, i, num_parens) ==
    IF num_parens = 0 THEN [ok |-> TRUE, index |-> i, code |-> "", pos |-> -1]
    ELSE IF At(tpl, i) = ")" THEN CloseParens(tpl, i + 1, num_parens - 1)
    ELSE IF IsWhitespace(At(tpl, i)) THEN CloseParens(tpl, i + 1, num_parens)
    ELSE [ok |-> FALSE, index |-> i, code |-> "unexpected-token", pos |-> i]

\* read_expression, expression.ts lines 9-75
read_expression(tpl, i) ==
    IF i >= Len(tpl)
    THEN [ok |-> FALSE, index |-> i, code |-> "unexpected-eof", pos |-> i]
    ELSE LET p == First(tpl, i, {j \in Indices(tpl) : At(tpl, SkipWs(tpl, j)) = "}"})
             alpha == p > i /\ \A j \in i..(p - 1) : IsLower(tpl[j + 1])
             node == Acorn(tpl, i)
             num_parens == Cardinality({j \in i..(node.start - 1) : tpl[j + 1] = "("})
         IN IF alpha THEN [ok |-> TRUE, index |-> p, code |-> "", pos |-> -1]
            ELSE IF ~node.ok
            THEN [ok |-> FALSE, index |-> i, code |-> node.code, pos |-> node.pos]
            ELSE CloseParens(tpl, node.end, num_parens)

\* Parser.read_identifier for an identifier that is no reserved word
read_identifier(tpl, i) == First(tpl, i, {j \in Indices(tpl) : ~IsLower(tpl[j + 1])})

(***************************************************************************)
(* Template parser: mustache state, mustache.ts                            *)
(***************************************************************************)
\* lines 82-90 with an if in place of the while: one else-if block is popped
PopElseIfs_One(st) == IF Current(st).elseif THEN Pop(st) ELSE st

RECURSIVE PopElseIfs(_)
\* lines 82-90
PopElseIfs(st) == IF Current(st).elseif THEN PopElseIfs(Pop(st)) ELSE st

RECURSIVE ElseIfEnds(_, _, _)
\* lines 82-90: block.end = parser.index for each else-if block popped, and
\* block.else.end = start for the ElseBlock that holds it
ElseIfEnds(st, start, after) ==
    IF Current(st).elseif
    THEN <<Ended(Current(st), after),
           Ended(Frame("ElseBlock", <<>>, Current(st).start, FALSE), start)>>
         \o ElseIfEnds(Pop(st), start, after)
    ELSE <<>>

Keyword(type) == IF type = "IfBlock" THEN <<"i", "f">>
                 ELSE IF type = "EachBlock" THEN <<"e", "a", "c", "h">> ELSE <<"a", "w", "a", "i", "t">>

\* the close branch taking any of the three keywords for any open block
MustacheClose_AnyKeyword(tpl, start, i, st) ==
    LET s1 == IF closing_tag_omitted(Current(st).name, <<>>) THEN Pop(st) ELSE st
        s2 == IF Current(s1).type \in {"ElseBlock", "PendingBlock", "ThenBlock", "CatchBlock"}
              THEN Pop(s1) ELSE s1
        block == Current(s2)
        kw == IF Match(tpl, i, <<"i", "f">>) THEN <<"i", "f">>
              ELSE IF Match(tpl, i, <<"e", "a", "c", "h">>) THEN <<"e", "a", "c", "h">> ELSE <<"a", "w", "a", "i", "t">>
    IN IF block.type \notin {"IfBlock", "EachBlock", "AwaitBlock"}
       THEN Thrown("unexpected-block-close", i, i, s2)
       ELSE IF ~Match(tpl, i, kw)
       THEN Thrown(EatError(tpl, i), i, i, s2)
       ELSE LET i2 == SkipWs(tpl, i + Len(kw))
            IN IF ~Match(tpl, i2, <<"}">>)
               THEN Thrown(EatError(tpl, i2), i2, i2, s2)
               ELSE Returned(i2 + 1, Pop(PopElseIfs(s2)))

\* lines 93-96: the character at i is whitespace or there is none
TrimAt(tpl, i) == At(tpl, i) = "" \/ IsWhitespace(At(tpl, i))

\* lines 45-101: {/if}, {/each}, {/await}; i is the index after '/'
MustacheClose(tpl, start, i, st) ==
    LET s1 == IF closing_tag_omitted(Current(st).name, <<>>) THEN Pop(st) ELSE st
        s2 == IF Current(s1).type \in {"ElseBlock", "PendingBlock", "ThenBlock", "CatchBlock"}
              THEN Pop(s1) ELSE s1
        block == Current(s2)
    IN IF block.type \notin {"IfBlock", "EachBlock", "AwaitBlock"}
       THEN Thrown("unexpected-block-close", i, i, s2)
       ELSE IF ~Match(tpl, i, Keyword(block.type))
       THEN Thrown(EatError(tpl, i), i, i, s2)
       ELSE LET i2 == SkipWs(tpl, i + Len(Keyword(block.type)))
            IN IF ~Match(tpl, i2, <<"}">>)
               THEN Thrown(EatError(tpl, i2), i2, i2, s2)
               ELSE Recording(Returned(i2 + 1, Pop(PopElseIfs(s2))),
                      (IF s1 # st THEN <<Ended(Current(st), start)>> ELSE <<>>)
                      \o (IF s2 # s1 THEN <<Ended(Current(s1), start)>> ELSE <<>>)
                      \o ElseIfEnds(s2, start, i2 + 1)
                      \o <<Trimmed(Current(PopElseIfs(s2)),
                                   TrimAt(tpl, Current(PopElseIfs(s2)).start - 1),
                                   TrimAt(tpl, i2 + 1)),
                            Ended(Current(PopElseIfs(s2)), i2 + 1)>>)

\* the else branch taking a plain {:else} on an ElseBlock as well
MustacheElse_Twice(tpl, start, i, st) ==
    LET block == Current(st)
        i1 == SkipWs(tpl, i)
    IN IF Match(tpl, i, <<"i", "f">>) THEN Thrown("invalid-elseif", i + 2, i + 2, st)
       ELSE IF Match(tpl, i1, <<"i", "f">>)
       THEN LET i2 == i1 + 2
                i3 == SkipWs(tpl, i2)
                e  == read_expression(tpl, i3)
                i4 == SkipWs(tpl, e.index)
            IN IF block.type # "IfBlock"
               THEN Thrown("invalid-elseif-placement", i2, i2, st)
               ELSE IF ~IsWhitespace(At(tpl, i2))
               THEN Thrown("missing-whitespace", i2, i2, st)
               ELSE IF ~e.ok THEN Thrown(e.code, e.pos, e.index, st)
               ELSE IF ~Match(tpl, i4, <<"}">>)
               THEN Thrown(EatError(tpl, i4), i4, i4, st)
               ELSE Recording(Returned(i4 + 1, Append(st, Frame("IfBlock", <<>>, i4 + 1, TRUE))),
                      <<Added("ElseBlock", <<>>, i4 + 1, -1, block, "else"),
                        WithElseif(Added("IfBlock", <<>>, i4 + 1, -1,
                                         Frame("ElseBlock", <<>>, i4 + 1, FALSE), "children"))>>)
       ELSE LET i2 == SkipWs(tpl, i1)
            IN IF block.type \notin {"IfBlock", "EachBlock", "ElseBlock"}
               THEN Thrown("invalid-else-placement", i1, i1, st)
               ELSE IF ~Match(tpl, i2, <<"}">>)
               THEN Thrown(EatError(tpl, i2), i2, i2, st)
               ELSE Recording(Returned(i2 + 1, Append(st, Frame("ElseBlock", <<>>, i2 + 1, FALSE))),
                      <<Added("ElseBlock", <<>>, i2 + 1, -1, block, "else")>>)

\* lines 104-173: {:else} and {:else if}; i is the index after ':else'
MustacheElse(tpl, start, i, st) ==
    LET block == Current(st)
        i1 == SkipWs(tpl, i)
    IN IF Match(tpl, i, <<"i", "f">>) THEN Thrown("invalid-elseif", i + 2, i + 2, st)
       ELSE IF Match(tpl, i1, <<"i", "f">>)
       THEN LET i2 == i1 + 2
                i3 == SkipWs(tpl, i2)
                e  == read_expression(tpl, i3)
                i4 == SkipWs(tpl, e.index)
            IN IF block.type # "IfBlock"
               THEN Thrown("invalid-elseif-placement", i2, i2, st)
               ELSE IF ~IsWhitespace(At(tpl, i2))
               THEN Thrown("missing-whitespace", i2, i2, st)
               ELSE IF ~e.ok THEN Thrown(e.code, e.pos, e.index, st)
               ELSE IF ~Match(tpl, i4, <<"}">>)
               THEN Thrown(EatError(tpl, i4), i4, i4, st)
               ELSE Recording(Returned(i4 + 1, Append(st, Frame("IfBlock", <<>>, i4 + 1, TRUE))),
                      <<Added("ElseBlock", <<>>, i4 + 1, -1, block, "else"),
                        WithElseif(Added("IfBlock", <<>>, i4 + 1, -1,
                                         Frame("ElseBlock", <<>>, i4 + 1, FALSE), "children"))>>)
       ELSE LET i2 == SkipWs(tpl, i1)
            IN IF block.type \notin {"IfBlock", "EachBlock"}
               THEN Thrown("invalid-else-placement", i1, i1, st)
               ELSE IF ~Match(tpl, i2, <<"}">>)
               THEN Thrown(EatError(tpl, i2), i2, i2, st)
               ELSE Recording(Returned(i2 + 1, Append(st, Frame("ElseBlock", <<>>, i2 + 1, FALSE))),
                      <<Added("ElseBlock", <<>>, i2 + 1, -1, block, "else")>>)

\* the then/catch branch taking {:then} after the catch block as well
MustacheThenCatch_AnyOrder(tpl, start, i, st) ==
    LET block == Current(st)
        is_then == Match(tpl, i, <<":", "t", "h", "e", "n">>)
        i1 == IF is_then THEN i + 5 ELSE i + 6
        s1 == Pop(st)
        i2 == SkipWs(tpl, i1)
        i3 == SkipWs(tpl, read_identifier(tpl, i2))
        pushed == Append(s1, Frame(IF is_then THEN "ThenBlock" ELSE "CatchBlock",
                                   <<>>, start, FALSE))
        done == <<Ended(block, start),
                  Added(IF is_then THEN "ThenBlock" ELSE "CatchBlock", <<>>, start, -1,
                        Current(s1), IF is_then THEN "then" ELSE "catch")>>
    IN IF is_then /\ block.type \notin {"PendingBlock", "CatchBlock"}
       THEN Thrown("invalid-then-placement", i1, i1, st)
       ELSE IF ~is_then /\ block.type \notin {"ThenBlock", "PendingBlock"}
       THEN Thrown("invalid-catch-placement", i1, i1, st)
       ELSE IF Match(tpl, i1, <<"}">>) THEN Recording(Returned(i1 + 1, pushed), done)
       ELSE IF ~IsWhitespace(At(tpl, i1))
       THEN Thrown("missing-whitespace", i1, i1, s1)
       ELSE IF ~Match(tpl, i3, <<"}">>)
       THEN Thrown(EatError(tpl, i3), i3, i3, s1)
       ELSE Recording(Returned(i3 + 1, pushed), done)

\* lines 174-226: {:then} and {:catch}; i is the index of ':'
MustacheThenCatch(tpl, start, i, st) ==
    LET block == Current(st)
        is_then == Match(tpl, i, <<":", "t", "h", "e", "n">>)
        i1 == IF is_then THEN i + 5 ELSE i + 6
        s1 == Pop(st)
        i2 == SkipWs(tpl, i1)
        i3 == SkipWs(tpl, read_identifier(tpl, i2))
        pushed == Append(s1, Frame(IF is_then THEN "ThenBlock" ELSE "CatchBlock",
                                   <<>>, start, FALSE))
        done == <<Ended(block, start),
                  Added(IF is_then THEN "ThenBlock" ELSE "CatchBlock", <<>>, start, -1,
                        Current(s1), IF is_then THEN "then" ELSE "catch")>>
    IN IF is_then /\ block.type # "PendingBlock"
       THEN Thrown("invalid-then-placement", i1, i1, st)
       ELSE IF ~is_then /\ block.type \notin {"ThenBlock", "PendingBlock"}
       THEN Thrown("invalid-catch-placement", i1, i1, st)
       ELSE IF Match(tpl, i1, <<"}">>) THEN Recording(Returned(i1 + 1, pushed), done)
       ELSE IF ~IsWhitespace(At(tpl, i1))
       THEN Thrown("missing-whitespace", i1, i1, s1)
       ELSE IF ~Match(tpl, i3, <<"}">>)
       THEN Thrown(EatError(tpl, i3), i3, i3, s1)
       ELSE Recording(Returned(i3 + 1, pushed), done)

\* lines 227-365: {#if}, {#each}, {#await}; i is the index after '#'
\* (the texts in use have no `once` and no each index or key)
MustacheOpen(tpl, start, i, st) ==
    LET type == IF Match(tpl, i, <<"i", "f">>) THEN "IfBlock"
                ELSE IF Match(tpl, i, <<"e", "a", "c", "h">>) THEN "EachBlock"
                ELSE IF Match(tpl, i, <<"a", "w", "a", "i", "t">>) THEN "AwaitBlock" ELSE "none"
        i1 == i + Len(Keyword(type))
        i2 == SkipWs(tpl, i1)
        e  == read_expression(tpl, i2)
        i3 == SkipWs(tpl, e.index)
        \* each: `as`, whitespace, context
        i4 == i3 + 2
        i5 == SkipWs(tpl, i4)
        i6 == SkipWs(tpl, read_identifier(tpl, i5))
        \* await: the `then` shorthand, whitespace, the name of the value
        await_block_shorthand == type = "AwaitBlock" /\ Match(tpl, i3, <<"t", "h", "e", "n">>)
        i7 == SkipWs(tpl, read_identifier(tpl, SkipWs(tpl, i3 + 4)))
        close == IF type = "EachBlock" THEN i6
                 ELSE IF await_block_shorthand THEN i7 ELSE i3
        child_block == IF await_block_shorthand THEN "ThenBlock" ELSE "PendingBlock"
        opened == Append(st, Frame(type, <<>>, start, FALSE))
    IN IF type = "none" THEN Thrown("expected-block-type", i, i, st)
       ELSE IF ~IsWhitespace(At(tpl, i1)) THEN Thrown("missing-whitespace", i1, i1, st)
       ELSE IF ~e.ok THEN Thrown(e.code, e.pos, e.index, st)
       ELSE IF type = "EachBlock" /\ ~Match(tpl, i3, <<"a", "s">>)
       THEN Thrown(EatError(tpl, i3), i3, i3, st)
       ELSE IF type = "EachBlock" /\ ~IsWhitespace(At(tpl, i4))
       THEN Thrown("missing-whitespace", i4, i4, st)
       ELSE IF await_block_shorthand /\ ~IsWhitespace(At(tpl, i3 + 4))
       THEN Thrown("missing-whitespace", i3 + 4, i3 + 4, st)
       ELSE IF ~Match(tpl, close, <<"}">>)
       THEN Thrown(EatError(tpl, close), close, close, st)
       ELSE IF type = "AwaitBlock"
       THEN Recording(Returned(close + 1,
                               Append(opened, Frame(child_block, <<>>, close + 1, FALSE))),
                      <<Added(type, <<>>, start, -1, Current(st), "children"),
                        Added(child_block, <<>>, close + 1, -1,
                              Frame(type, <<>>, start, FALSE),
                              IF await_block_shorthand THEN "then" ELSE "pending")>>)
       ELSE Recording(Returned(close + 1, opened),
                      <<Added(type, <<>>, start, -1, Current(st), "children")>>)

\* {expression} leaving the cursor where the tag began
MustacheTag_Rewind(tpl, start, i, st) ==
    LET e  == read_expression(tpl, i)
        i1 == SkipWs(tpl, e.index)
    IN IF ~e.ok THEN Thrown(e.code, e.pos, e.index, st)
       ELSE IF ~Match(tpl, i1, <<"}">>) THEN Thrown(EatError(tpl, i1), i1, i1, st)
       ELSE Returned(start, st)

\* lines 413-425: {expression}; i is the index after '{' and whitespace
MustacheTag(tpl, start, i, st) ==
    LET e  == read_expression(tpl, i)
        i1 == SkipWs(tpl, e.index)
    IN IF ~e.ok THEN Thrown(e.code, e.pos, e.index, st)
       ELSE IF ~Match(tpl, i1, <<"}">>) THEN Thrown(EatError(tpl, i1), i1, i1, st)
       ELSE Recording(Returned(i1 + 1, st),
                      <<Added("MustacheTag", <<>>, start, i1 + 1, Current(st), "children")>>)

\* lines 37-426
mustache(tpl, at, st) ==
    LET start == at
        i == SkipWs(tpl, at + 1)
    IN IF Match(tpl, i, <<"/">>) THEN MustacheClose(tpl, start, i + 1, st)
       ELSE IF Match(tpl, i, <<":", "e", "l", "s", "e">>) THEN MustacheElse(tpl, start, i + 5, st)
       ELSE IF Match(tpl, i, <<":", "t", "h", "e", "n">>) \/ Match(tpl, i, <<":", "c", "a", "t", "c", "h">>)
       THEN MustacheThenCatch(tpl, start, i, st)
       ELSE IF Match(tpl, i, <<"#">>) THEN MustacheOpen(tpl, start, i + 1, st)
       ELSE MustacheTag(tpl, start, i, st)

(***************************************************************************)
(* Template parser: tag state                                              *)
(***************************************************************************)
\* lines 477-486
get_directive_type(name) ==
    IF name = <<"u", "s", "e">> THEN "Action"
    ELSE IF name = <<"a", "n", "i", "m", "a", "t", "e">> THEN "Animation"
    ELSE IF name = <<"b", "i", "n", "d">> THEN "Binding"
    ELSE IF name = <<"c", "l", "a", "s", "s">> THEN "Class"
    ELSE IF name = <<"o", "n">> THEN "EventHandler"
    ELSE IF name = <<"l", "e", "t">> THEN "Let"
    ELSE IF name = <<"r", "e", "f">> THEN "Ref"
    ELSE IF name \in {<<"i", "n">>, <<"o", "u", "t">>, <<"t", "r", "a", "n", "s", "i", "t", "i", "o", "n">>} THEN "Transition"
    ELSE ""

\* outcome of read_attribute: an attribute, null (none) or a thrown error
Attribute(i, type, name, unique) ==
    [ok |-> TRUE, none |-> FALSE, index |-> i, code |-> "", pos |-> -1,
     attr |-> [type |-> type, name |-> name, value |-> <<>>], unique |-> unique]
NoAttribute(i, unique) ==
    [ok |-> TRUE, none |-> TRUE, index |-> i, code |-> "", pos |-> -1,
     attr |-> [type |-> "", name |-> <<>>, value |-> <<>>], unique |-> unique]
AttributeError(code, pos, i, unique) ==
    [ok |-> FALSE, none |-> FALSE, index |-> i, code |-> code, pos |-> pos,
     attr |-> [type |-> "", name |-> <<>>, value |-> <<>>], unique |-> unique]
\* value: the text of a static attribute value
WithValue(a, value) == [a EXCEPT !.attr.value = value]

\* the quote characters
SingleQuote == "'"
DoubleQuote == "\""

\* lines 489-504 for a value without mustache: the index after the value,
\* Len(tpl) + 1 when the text ends inside it (the backquote, which also ends
\* an unquoted value, is no character of the texts in use)
read_attribute_value(tpl, i) ==
    LET quoted == At(tpl, i) \in {SingleQuote, DoubleQuote}
        from == IF quoted THEN i + 1 ELSE i
        done == First(tpl, from,
                      {j \in Indices(tpl) :
                          IF quoted THEN tpl[j + 1] = At(tpl, i)
                          ELSE \/ tpl[j + 1] \in {DoubleQuote, SingleQuote, "=", "<", ">"}
                               \/ IsWhitespace(tpl[j + 1])
                               \/ Match(tpl, j, <<"/", ">">>)})
    IN IF done >= Len(tpl) THEN Len(tpl) + 1
       ELSE IF quoted THEN done + 1 ELSE done

\* lines 325-474, read_attribute(parser, unique_names)
read_attribute(tpl, i, unique) ==
    IF Match(tpl, i, <<"{">>)
    THEN LET i1 == SkipWs(tpl, i + 1) IN
         IF Match(tpl, i1, <<".", ".", ".">>)
         THEN LET e  == read_expression(tpl, i1 + 3)
                  i2 == SkipWs(tpl, e.index)
              IN IF ~e.ok THEN AttributeError(e.code, e.pos, e.index, unique)
                 ELSE IF ~Match(tpl, i2, <<"}">>)
                 THEN AttributeError(EatError(tpl, i2), i2, i2, unique)
                 ELSE Attribute(i2 + 1, "Spread", <<>>, unique)
         ELSE LET i2 == read_identifier(tpl, i1)
                  i3 == SkipWs(tpl, i2)
              IN IF ~Match(tpl, i3, <<"}">>)
                 THEN AttributeError(EatError(tpl, i3), i3, i3, unique)
                 ELSE Attribute(i3 + 1, "Attribute", SubSeq(tpl, i1 + 1, i2), unique)
    ELSE IF i >= Len(tpl) THEN AttributeError("unexpected-eof", i, i, unique)
    ELSE LET n1 == First(tpl, i, {j \in Indices(tpl) :
                                     \/ IsWhitespace(tpl[j + 1])
                                     \/ tpl[j + 1] \in {"=", "/", ">", DoubleQuote, SingleQuote}})
             name == SubSeq(tpl, i + 1, n1)
             i1 == SkipWs(tpl, n1)
             colons == {c \in 1..Len(name) : name[c] = ":"}
             colon_index == IF colons = {} THEN 0
                            ELSE CHOOSE c \in colons : \A d \in colons : c <= d
             type == IF colon_index = 0 THEN ""
                     ELSE get_directive_type(SubSeq(name, 1, colon_index - 1))
             added == IF type # "EventHandler" THEN unique \cup {name} ELSE unique
             has_value == Match(tpl, i1, <<"=">>)
             v0 == SkipWs(tpl, i1 + 1)
             v1 == read_attribute_value(tpl, v0)
             after == IF has_value THEN v1 ELSE i1
             quoted == At(tpl, v0) \in {SingleQuote, DoubleQuote}
             value == IF ~has_value THEN <<>>
                      ELSE IF quoted THEN SubSeq(tpl, v0 + 2, v1 - 1)
                      ELSE SubSeq(tpl, v0 + 1, v1)
         IN IF name = <<>> THEN NoAttribute(n1, unique)
            ELSE IF name \in unique THEN AttributeError("duplicate-attribute", i, i1, unique)
            ELSE IF has_value /\ v1 > Len(tpl)
            THEN AttributeError("unexpected-eof", Len(tpl), Len(tpl), added)
            ELSE IF ~has_value /\ At(tpl, i1) \in {DoubleQuote, SingleQuote}
            THEN AttributeError("unexpected-token", i1, i1, added)
            ELSE IF type = "Ref" THEN AttributeError("invalid-ref-directive", i, after, added)
            ELSE IF type # "" /\ has_value /\ v1 > v0
            THEN AttributeError("invalid-directive-value", v0, after, added)
            ELSE WithValue(Attribute(after, IF type = "" THEN "Attribute" ELSE type, name, added),
                           value)

RECURSIVE read_attributes(_, _, _, _)
RECURSIVE NextAttribute(_, _, _)
\* tag, lines 183-186: the body of the loop, a being what read_attribute gave
NextAttribute(tpl, attrs, a) ==
    IF ~a.ok \/ a.none
    THEN [ok |-> a.ok, index |-> a.index, code |-> a.code, pos |-> a.pos, attrs |-> attrs]
    ELSE read_attributes(tpl, SkipWs(tpl, a.index), a.unique, Append(attrs, a.attr))

\* tag, lines 181-188: attributes are read until read_attribute returns null
read_attributes(tpl, i, unique, attrs) ==
    NextAttribute(tpl, attrs, read_attribute(tpl, i, unique))

RECURSIVE CloseEnds_AtCursor(_, _, _, _)
\* every frame the closing tag pops ends at the cursor after '>'
CloseEnds_AtCursor(st, name, start, i) ==
    IF Current(st).name = name THEN <<Ended(Current(st), i)>>
    ELSE IF Current(st).type # "Element" THEN <<>>
    ELSE <<Ended(Current(st), i)>> \o CloseEnds_AtCursor(Pop(st), name, start, i)

RECURSIVE CloseEnds(_, _, _, _)
\* lines 162 and 170: parent.end = start above the match, parser.index at it
CloseEnds(st, name, start, i) ==
    IF Current(st).name = name THEN <<Ended(Current(st), i)>>
    ELSE IF Current(st).type # "Element" THEN <<>>
    ELSE <<Ended(Current(st), start)>> \o CloseEnds(Pop(st), name, start, i)

RECURSIVE CloseElements(_, _, _, _)
\* the closing tag popping the innermost frame whatever it is
CloseElements_PopAny(st, name, start, i) == Returned(i, Pop(st))

\* lines 154-171: the frames are popped up to the one of that name
CloseElements(st, name, start, i) ==
    IF Current(st).name = name THEN Returned(i, Pop(st))
    ELSE IF Current(st).type # "Element"
    THEN Thrown("invalid-closing-tag", start, i, st)
    ELSE CloseElements(Pop(st), name, start, i)

ScriptName == <<"s", "c", "r", "i", "p", "t">>
StyleName == <<"s", "t", "y", "l", "e">>
ClosingTag(name) == <<"<", "/">> \o name \o <<">">>

\* template.indexOf(str, i) and read_until: the index of the first str at or
\* after i, Len(tpl) when there is none
Find(tpl, i, str) == First(tpl, i, {j \in Indices(tpl) : Match(tpl, j, str)})

\* parser.js and parser.css hold their nodes themselves
ParserFrame == Frame("Parser", <<>>, -1, FALSE)

\* read/script.ts get_context: "default" without a context attribute, "module"
\* for context="module", nothing else is accepted ("" here)
get_context(attrs) ==
    LET found == {k \in 1..Len(attrs) :
                     attrs[k].type = "Attribute" /\ attrs[k].name = <<"c", "o", "n", "t", "e", "x", "t">>}
        k == CHOOSE m \in found : \A o \in found : m <= o
    IN IF found = {} THEN "default"
       ELSE IF attrs[k].value = <<"m", "o", "d", "u", "l", "e">> THEN "module"
       ELSE ""

\* read/script.ts: the top-level <script> up to its closing tag, pushed to
\* parser.js by tag (lines 216-217); the content is script text acorn accepts
read_script(tpl, start, i, st, attrs) ==
    LET script_end == Find(tpl, i, ClosingTag(ScriptName))
        after == script_end + Len(ClosingTag(ScriptName))
    IN IF script_end >= Len(tpl) THEN Thrown("unclosed-script", i, i, st)
       ELSE IF get_context(attrs) = "" THEN Thrown("invalid-script", start, after, st)
       ELSE Recording(Returned(after, st),
                      <<WithContext(Added("Script", <<>>, start, after, ParserFrame, "js"),
                                    get_context(attrs))>>)

\* read/style.ts: the top-level <style> up to its closing tag, pushed to
\* parser.css by tag (lines 216-217)
read_style(tpl, start, i, st, attrs) ==
    LET content_end == Find(tpl, i, ClosingTag(StyleName))
        after == content_end + Len(ClosingTag(StyleName))
    IN IF content_end >= Len(tpl)
       THEN Thrown(EatError(tpl, content_end), content_end, content_end, st)
       ELSE Recording(Returned(after, st),
                      <<Added("Style", <<>>, start, after, ParserFrame, "css")>>)

\* lines 240-254: a <script> or <style> below the top level is an element
\* holding its raw text; only the script gets its end set
RawText(tpl, name, type, start, i, st, before, attrs) ==
    LET e == Find(tpl, i, ClosingTag(name))
        after == e + Len(ClosingTag(name))
        element == Frame(type, name, start, FALSE)
    IN IF e >= Len(tpl) THEN Thrown(EatError(tpl, e), e, e, st)
       ELSE Recording(Returned(after, st),
                      before \o
                      <<WithAttributes(Added(type, name, start,
                                             IF name = ScriptName THEN after ELSE -1,
                                             Current(st), "children"), attrs),
                        WithData(Added("Text", <<>>, i, e, element, "children"),
                                 SubSeq(tpl, i + 1, e))>>)

\* lines 173-259: the opening tag from its attributes on, read being what
\* the loop of lines 181-188 gave and s1 the stack after line 182
OpeningTag(tpl, start, st, s1, name, type, read) ==
    LET parent == Current(st)
        slash == Match(tpl, read.index, <<"/">>)
        i2 == IF slash THEN read.index + 1 ELSE read.index
        closed_parent == IF s1 # st THEN <<Ended(parent, start)>> ELSE <<>>
    IN IF ~read.ok THEN Thrown(read.code, read.pos, read.index, s1)
       ELSE IF name \in {ScriptName, StyleName} /\ Len(s1) = 1
       THEN IF ~Match(tpl, read.index, <<">">>)
            THEN Thrown(EatError(tpl, read.index), read.index, read.index, s1)
            ELSE IF name = ScriptName
            THEN read_script(tpl, start, read.index + 1, s1, read.attrs)
            ELSE read_style(tpl, start, read.index + 1, s1, read.attrs)
       ELSE IF ~Match(tpl, i2, <<">">>) THEN Thrown(EatError(tpl, i2), i2, i2, s1)
       ELSE IF slash \/ is_void(name)
       THEN Recording(Returned(i2 + 1, s1),
                      closed_parent
                      \o <<WithAttributes(Added(type, name, start, i2 + 1, Current(s1), "children"),
                                          read.attrs)>>)
       ELSE IF name \in {ScriptName, StyleName}
       THEN RawText(tpl, name, type, start, i2 + 1, s1, closed_parent, read.attrs)
       ELSE Recording(Returned(i2 + 1, Append(s1, Frame(type, name, start, FALSE))),
                      closed_parent
                      \o <<WithAttributes(Added(type, name, start, -1, Current(s1), "children"),
                                          read.attrs)>>)

\* lines 103-259: the tag from its name on, the name being tpl[n0 + 1..n1]
TagNamed(tpl, start, st, is_closing_tag, n0, n1, name, i1) ==
    IF n0 >= Len(tpl) THEN Thrown("unexpected-eof", n0, n0, st)
    ELSE IF ~(IsLower(At(tpl, n0)) \/ IsUpper(At(tpl, n0)))
    THEN Thrown("invalid-tag-name", n0, n1, st)
    ELSE IF is_closing_tag
    THEN IF is_void(name) THEN Thrown("invalid-void-content", start, i1, st)
         ELSE IF ~Match(tpl, i1, <<">">>) THEN Thrown(EatError(tpl, i1), i1, i1, st)
         ELSE Recording(CloseElements(st, name, start, i1 + 1),
                        CloseEnds(st, name, start, i1 + 1))
    ELSE OpeningTag(tpl, start, st,
                    IF closing_tag_omitted(Current(st).name, name) THEN Pop(st) ELSE st,
                    name,
                    IF IsUpper(At(tpl, n0)) THEN "InlineComponent" ELSE "Element",
                    read_attributes(tpl, i1, {}, <<>>))

\* the end of the tag name that starts after n0
TagNameEnd(tpl, n0) ==
    First(tpl, n0, {j \in Indices(tpl) : IsWhitespace(tpl[j + 1]) \/ tpl[j + 1] \in {"/", ">"}})

\* lines 57-259: <name attributes>, </name>, <name attributes/>
tag(tpl, at, st) ==
    LET is_closing_tag == Match(tpl, at + 1, <<"/">>)
        n0 == IF is_closing_tag THEN at + 2 ELSE at + 1
    IN TagNamed(tpl, at, st, is_closing_tag, n0, TagNameEnd(tpl, n0),
                SubSeq(tpl, n0 + 1, TagNameEnd(tpl, n0)),
                SkipWs(tpl, TagNameEnd(tpl, n0)))

\* state/text.ts: text up to the next '<' or '{'
text(tpl, at, st) ==
    LET e == First(tpl, at, {j \in Indices(tpl) : tpl[j + 1] \in {"<", "{"}})
    IN Recording(Returned(e, st),
                 <<WithData(Added("Text", <<>>, at, e, Current(st), "children"),
                            SubSeq(tpl, at + 1, e))>>)

\* state/fragment.ts: the state for the character at the cursor
fragment(tpl, at) ==
    IF Match(tpl, at, <<"<">>) THEN "tag"
    ELSE IF Match(tpl, at, <<"{">>) THEN "mustache" ELSE "text"

(***************************************************************************)
(* Template parser: the parse loop, Parser.constructor                     *)
(***************************************************************************)
\* the pieces of template text the input is made of
Pieces ==
    {<<"{", "#", "i", "f", " ", "x", "}">>,
     <<"{", "#", "e", "a", "c", "h", " ", "x", " ", "a", "s", " ", "y", "}">>,
     <<"{", "#", "a", "w", "a", "i", "t", " ", "x", "}">>,
     <<"{", ":", "e", "l", "s", "e", "}">>,
     <<"{", ":", "e", "l", "s", "e", " ", "i", "f", " ", "x", "}">>,
     <<"{", ":", "t", "h", "e", "n", " ", "y", "}">>,
     <<"{", ":", "c", "a", "t", "c", "h", " ", "e", "}">>,
     <<"{", "/", "i", "f", "}">>,
     <<"{", "/", "e", "a", "c", "h", "}">>,
     <<"{", "/", "a", "w", "a", "i", "t", "}">>,
     <<"<", "d", "i", "v", ">">>,
     <<"<", "/", "d", "i", "v", ">">>,
     <<"<", "p", ">">>,
     <<"<", "C", ">">>,
     <<"a">>,
     <<" ">>}

\* this.template: trailing whitespace is removed once the text is complete
ParserTemplate == IF closed THEN StripEnd(template) ELSE template

\* where the construct at the cursor ends in the text drawn so far
ConstructEnd ==
    LET tpl == template IN
    IF fragment(tpl, index) = "text"
    THEN First(tpl, index, {j \in Indices(tpl) : tpl[j + 1] \in {"<", "{"}})
    ELSE IF Match(tpl, index, <<"<">> \o ScriptName)
    THEN Len(ClosingTag(ScriptName)) + Find(tpl, index, ClosingTag(ScriptName))
    ELSE IF Match(tpl, index, <<"<">> \o StyleName)
    THEN Len(ClosingTag(StyleName)) + Find(tpl, index, ClosingTag(StyleName))
    ELSE IF fragment(tpl, index) = "tag"
    THEN 1 + First(tpl, index, {j \in Indices(tpl) : tpl[j + 1] = ">"})
    ELSE 1 + First(tpl, index, {j \in Indices(tpl) : tpl[j + 1] = "}"})

\* a state function reads at most one character past its construct, so it
\* can run once that character is drawn or the text is complete
Ready == closed \/ ConstructEnd < Len(template)

ParserInit ==
    /\ RendererIdle
    /\ ReactiveIdle
    /\ AnalysisIdle
    /\ SideIdle
    /\ template = <<>>
    /\ closed = FALSE
    /\ pieces = 0
    /\ index = 0
    /\ stack = <<Root>>
    /\ state = "fragment"
    /\ p_error = ""
    /\ p_error_pos = -1
    /\ nodes = <<RootNode>>

Running == state \in {"fragment", "tag", "mustache", "text"}

\* the next piece of the template text
Draw ==
    /\ Running
    /\ ~closed
    /\ pieces < MaxPieces
    /\ ~(index < Len(template) /\ Ready)
    /\ \E piece \in Pieces : template' = template \o piece
    /\ pieces' = pieces + 1
    /\ UNCHANGED <<closed, index, stack, state, p_error, p_error_pos, nodes, rvars, xvars, avars, svars>>

\* the template text is complete
Close ==
    /\ Running
    /\ ~closed
    /\ ~(index < Len(template) /\ Ready)
    /\ closed' = TRUE
    /\ UNCHANGED <<template, pieces, index, stack, state, p_error, p_error_pos, nodes, rvars, xvars, avars, svars>>

Apply(result, next) ==
    /\ index' = result.index
    /\ stack' = result.stack
    /\ IF result.ok
       THEN state' = next /\ p_error' = "" /\ p_error_pos' = -1
       ELSE state' = "error" /\ p_error' = result.code /\ p_error_pos' = result.pos
    /\ nodes' = (IF result.ok THEN Replay(nodes, result.evs, 1) ELSE nodes)
    /\ UNCHANGED <<template, closed, pieces, rvars, xvars, avars, svars>>

\* constructor lines 349-351: one application of the current state function
Step ==
    /\ Running
    /\ index < Len(ParserTemplate)
    /\ Ready
    /\ LET tpl == ParserTemplate IN
       IF state = "fragment" THEN Apply(Returned(index, stack), fragment(tpl, index))
       ELSE IF state = "tag" THEN Apply(tag(tpl, index, stack), "fragment")
       ELSE IF state = "mustache" THEN Apply(mustache(tpl, index, stack), "fragment")
       ELSE Apply(text(tpl, index, stack), "fragment")

\* the nodes in the children array of the node of the given type and start
ChildrenOf(ns, type, start) ==
    {n \in 1..Len(ns) : ns[n].ptype = type /\ ns[n].pstart = start /\ ns[n].via = "children"}

\* constructor lines 374-386: the span of the root Fragment, measured on the
\* template as it was handed in
TrimRoot(ns) ==
    LET kids == ChildrenOf(ns, "Fragment", -1)
        first == CHOOSE n \in kids : \A m \in kids : n <= m
        last == CHOOSE n \in kids : \A m \in kids : m <= n
        ends == {e \in 1..ns[last].end : ~IsWhitespace(template[e])}
        s0 == SkipWs(template, ns[first].start)
        e0 == IF ends = {} THEN 0 ELSE CHOOSE e \in ends : \A f \in ends : f <= e
    IN IF kids = {} THEN ns
       ELSE [ns EXCEPT ![1] = [@ EXCEPT !.start = s0, !.end = e0]]

\* parser.css, and parser.js filtered by context (parse lines 543-544)
IsStyle(n) == n.via = "css"
IsInstanceScript(n) == n.via = "js" /\ n.context = "default"
IsModuleScript(n) == n.via = "js" /\ n.context = "module"
css(ns) == SelectSeq(ns, IsStyle)
instance_scripts(ns) == SelectSeq(ns, IsInstanceScript)
module_scripts(ns) == SelectSeq(ns, IsModuleScript)

Parsed == [ok |-> TRUE, code |-> "", pos |-> -1]
ParseError(code, pos) == [ok |-> FALSE, code |-> code, pos |-> pos]

\* parse without the check of the module scripts
parse_NoModuleCheck(ns) ==
    IF Len(css(ns)) > 1 THEN ParseError("duplicate-style", css(ns)[2].start)
    ELSE IF Len(instance_scripts(ns)) > 1
    THEN ParseError("invalid-script", instance_scripts(ns)[2].start)
    ELSE Parsed

\* parse lines 536-558: the checks on what the Parser collected
parse(ns) ==
    IF Len(css(ns)) > 1 THEN ParseError("duplicate-style", css(ns)[2].start)
    ELSE IF Len(instance_scripts(ns)) > 1
    THEN ParseError("invalid-script", instance_scripts(ns)[2].start)
    ELSE IF Len(module_scripts(ns)) > 1
    THEN ParseError("invalid-script", module_scripts(ns)[2].start)
    ELSE Parsed

\* the checks after the loop, every open frame reported as a block
Finish_AlwaysBlock ==
    /\ Running
    /\ closed
    /\ index >= Len(ParserTemplate)
    /\ IF Len(stack) > 1
       THEN /\ state' = "error"
            /\ p_error' = "unclosed-block"
            /\ p_error_pos' = Current(stack).start
       ELSE IF state # "fragment"
       THEN state' = "error" /\ p_error' = "unexpected-eof" /\ p_error_pos' = index
       ELSE IF ~parse(nodes).ok
       THEN state' = "error" /\ p_error' = parse(nodes).code /\ p_error_pos' = parse(nodes).pos
       ELSE state' = "parsed" /\ p_error' = "" /\ p_error_pos' = -1
    /\ nodes' = (IF Len(stack) = 1 /\ state = "fragment" THEN TrimRoot(nodes) ELSE nodes)
    /\ UNCHANGED <<template, closed, pieces, index, stack, rvars, xvars, avars, svars>>

\* constructor lines 353-386: the checks after the loop and the span of the
\* root, then the checks of parse on what it built
Finish ==
    /\ Running
    /\ closed
    /\ index >= Len(ParserTemplate)
    /\ IF Len(stack) > 1
       THEN /\ state' = "error"
            /\ p_error' = (IF Current(stack).type = "Element"
                           THEN "unclosed-element" ELSE "unclosed-block")
            /\ p_error_pos' = Current(stack).start
       ELSE IF state # "fragment"
       THEN state' = "error" /\ p_error' = "unexpected-eof" /\ p_error_pos' = index
       ELSE IF ~parse(nodes).ok
       THEN state' = "error" /\ p_error' = parse(nodes).code /\ p_error_pos' = parse(nodes).pos
       ELSE state' = "parsed" /\ p_error' = "" /\ p_error_pos' = -1
    /\ nodes' = (IF Len(stack) = 1 /\ state = "fragment" THEN TrimRoot(nodes) ELSE nodes)
    /\ UNCHANGED <<template, closed, pieces, index, stack, rvars, xvars, avars, svars>>

ParserNext == Draw \/ Close \/ Step \/ Finish
ParserSpec == ParserInit /\ [][ParserNext]_allvars

\* the pieces of an opening tag: its name, attributes of each form, its end
TagPieces ==
    {<<"<", "d", "i", "v">>,
     <<" ", "a">>,
     <<" ", "{", "a", "}">>,
     <<" ", "o", "n", ":", "c">>,
     <<" ", "b", "i", "n", "d", ":", "a">>,
     <<" ", "a", "=", "b">>,
     <<">">>}

\* the next piece of a template text made of opening tags
DrawTag ==
    /\ Running
    /\ ~closed
    /\ pieces < MaxPieces
    /\ ~(index < Len(template) /\ Ready)
    /\ \E piece \in TagPieces : template' = template \o piece
    /\ pieces' = pieces + 1
    /\ UNCHANGED <<closed, index, stack, state, p_error, p_error_pos, nodes, rvars, xvars, avars, svars>>

AttrNext == DrawTag \/ Close \/ Step \/ Finish
AttrSpec == ParserInit /\ [][AttrNext]_allvars

\* the pieces of a template text with top-level scripts and styles
ScriptPieces ==
    {<<"<", "s", "c", "r", "i", "p", "t", ">", "<", "/", "s", "c", "r", "i", "p", "t", ">">>,
     <<"<", "s", "c", "r", "i", "p", "t", " ", "c", "o", "n", "t", "e", "x", "t", "=",
       "m", "o", "d", "u", "l", "e", ">", "<", "/", "s", "c", "r", "i", "p", "t", ">">>,
     <<"<", "s", "c", "r", "i", "p", "t", " ", "c", "o", "n", "t", "e", "x", "t", ">",
       "<", "/", "s", "c", "r", "i", "p", "t", ">">>,
     <<"<", "s", "t", "y", "l", "e", ">", "<", "/", "s", "t", "y", "l", "e", ">">>,
     <<"<", "s", "t", "y", "l", "e", ">">>,
     <<"<", "d", "i", "v", ">">>,
     <<"<", "/", "d", "i", "v", ">">>,
     <<"a">>}

\* the next piece of a template text with scripts and styles
DrawScript ==
    /\ Running
    /\ ~closed
    /\ pieces < MaxPieces
    /\ ~(index < Len(template) /\ Ready)
    /\ \E piece \in ScriptPieces : template' = template \o piece
    /\ pieces' = pieces + 1
    /\ UNCHANGED <<closed, index, stack, state, p_error, p_error_pos, nodes, rvars, xvars, avars, svars>>

ScriptNext == DrawScript \/ Close \/ Step \/ Finish
ScriptSpec == ParserInit /\ [][ScriptNext]_allvars

\* the pieces of a template text of await blocks, with an if block, an
\* element that needs no closing tag and text
AwaitPieces ==
    {<<"{", "#", "a", "w", "a", "i", "t", " ", "x", "}">>,
     <<"{", "#", "a", "w", "a", "i", "t", " ", "x", " ", "t", "h", "e", "n", " ", "y", "}">>,
     <<"{", ":", "t", "h", "e", "n", " ", "y", "}">>,
     <<"{", ":", "c", "a", "t", "c", "h", " ", "e", "}">>,
     <<"{", ":", "c", "a", "t", "c", "h", "}">>,
     <<"{", "/", "a", "w", "a", "i", "t", "}">>,
     <<"{", "#", "i", "f", " ", "x", "}">>,
     <<"<", "p", ">">>,
     <<"a">>}

\* the next piece of such a template text
DrawAwait ==
    /\ Running
    /\ ~closed
    /\ pieces < MaxPieces
    /\ ~(index < Len(template) /\ Ready)
    /\ \E piece \in AwaitPieces : template' = template \o piece
    /\ pieces' = pieces + 1
    /\ UNCHANGED <<closed, index, stack, state, p_error, p_error_pos, nodes, rvars, xvars, avars, svars>>

\* the pieces of a template text of if blocks with else and else-if
\* branches, with text that begins and ends with whitespace
TrimPieces ==
    {<<"{", "#", "i", "f", " ", "x", "}">>,
     <<"{", "#", "i", "f", " ", "x", "}", " ", "a", " ">>,
     <<"{", ":", "e", "l", "s", "e", "}">>,
     <<"{", ":", "e", "l", "s", "e", "}", " ", "a", " ">>,
     <<"{", ":", "e", "l", "s", "e", " ", "i", "f", " ", "x", "}">>,
     <<"{", ":", "e", "l", "s", "e", " ", "i", "f", " ", "x", "}", " ", "a", " ">>,
     <<"{", "/", "i", "f", "}">>,
     <<"{", "#", "a", "w", "a", "i", "t", " ", "x", "}", " ", "a", " ", "{", "/", "a", "w", "a", "i", "t", "}">>,
     <<"a">>,
     <<" ">>}

\* the next piece of such a template text
DrawTrim ==
    /\ Running
    /\ ~closed
    /\ pieces < MaxPieces
    /\ ~(index < Len(template) /\ Ready)
    /\ \E piece \in TrimPieces : template' = template \o piece
    /\ pieces' = pieces + 1
    /\ UNCHANGED <<closed, index, stack, state, p_error, p_error_pos, nodes, rvars, xvars, avars, svars>>

TrimNext == DrawTrim \/ Close \/ Step \/ Finish
TrimSpec == ParserInit /\ [][TrimNext]_allvars

AwaitNext == DrawAwait \/ Close \/ Step \/ Finish
AwaitSpec == ParserInit /\ [][AwaitNext]_allvars

\* the pieces of a template text of elements, blocks, text and expressions,
\* one of them an expression read_expression hands to acorn
LoopPieces ==
    {<<"<", "d", "i", "v", ">">>,
     <<"<", "/", "d", "i", "v", ">">>,
     <<"a">>,
     <<"{", "(", "x", ")", "}">>,
     <<"{", "#", "i", "f", " ", "x", "}">>,
     <<"{", "/", "i", "f", "}">>}

\* the next piece of such a template text
DrawLoop ==
    /\ Running
    /\ ~closed
    /\ pieces < MaxPieces
    /\ ~(index < Len(template) /\ Ready)
    /\ \E piece \in LoopPieces : template' = template \o piece
    /\ pieces' = pieces + 1
    /\ UNCHANGED <<closed, index, stack, state, p_error, p_error_pos, nodes, rvars, xvars, avars, svars>>

LoopNext == DrawLoop \/ Close \/ Step \/ Finish

\* constructor lines 349-351 seen from outside: while the loop condition
\* holds, a step that changes `state` is an application of the state function
\* (a drawn piece and the end of the text leave `state` alone, the checks after
\* the loop need the loop condition to fail), and every application changes it
Turn ==
    /\ Running
    /\ index < Len(ParserTemplate)
    /\ Ready
    /\ state' \in {"fragment", "tag", "mustache", "text", "error"}
    /\ state' # state

\* the constructor is straight-line code around a while loop: once the text
\* is there, the next application of the state function, and the checks that
\* follow the loop, are always taken
LoopSpec ==
    /\ ParserInit
    /\ [][LoopNext]_allvars
    /\ WF_state(Turn)
    /\ WF_allvars(Finish)

(***************************************************************************)
(* Renderer: properties                                                    *)
(***************************************************************************)
Slot(name)   == context[ContextPos(context, name)].index
Mapped(name) == ContextHas(context, name)
RegPos(name) == CHOOSE i \in 1..Len(registration) : registration[i] = name
Evaluated    == r_pc = "done" /\ dirty_out # NoDirty
MappedNames  == {dirty_names[i] : i \in 1..Len(dirty_names)} \cap
                {context[i].name : i \in 1..Len(context)}
\* the mask the emitted expression applies to word w (0 when w is not tested)
MaskOf(w) == IF \E t \in 1..Len(dirty_out.terms) : dirty_out.terms[t].i = w
             THEN dirty_out.terms[CHOOSE t \in 1..Len(dirty_out.terms) :
                                     dirty_out.terms[t].i = w].n
             ELSE 0
WordsTested == {dirty_out.terms[t].i : t \in 1..Len(dirty_out.terms)}
WordsMapped == {Slot(nm) \div 31 : nm \in MappedNames}

\* C1: once the constructor has finished, the slot indices of the N
\* registered members are exactly 0..N-1, no two members sharing one, and
\* the members are the names that were registered.
C1_SlotPermutation ==
    r_pc = "done" =>
        /\ Len(context) = Len(registration)
        /\ {context[i].name : i \in 1..Len(context)} =
           {registration[i] : i \in 1..Len(registration)}
        /\ {context[i].index : i \in 1..Len(context)} = 0..(Len(context) - 1)
        /\ \A i, j \in 1..Len(context) :
              context[i].index = context[j].index => i = j

C1_Witness ==
    /\ r_pc = "done"
    /\ Len(context) >= 3
    /\ Names(context) # registration

RECURSIVE SumBits(_)
SumBits(S) == IF S = {} THEN 0
              ELSE LET b == CHOOSE x \in S : TRUE IN (2 ^ b) + SumBits(S \ {b})

\* C2: every mapped name with slot k sets bit k mod 31 of word k div 31, and
\* the mask of a word is made of exactly the bits of the names in that word.
C2_BitmaskCorrect ==
    Evaluated /\ dirty_out.form \in {"mask", "words"} =>
        \A w \in WordsMapped \cup WordsTested :
            MaskOf(w) = SumBits({Slot(nm) % 31 : nm \in {x \in MappedNames : Slot(x) \div 31 = w}})

C2_Witness ==
    /\ Evaluated
    /\ Len(context) = 35
    /\ \E nm \in MappedNames : Slot(nm) = 32
    /\ \E nm \in MappedNames : Slot(nm) = 5
    /\ dirty_out.form = "words"
    /\ MaskOf(1) = 2 /\ MaskOf(0) = 32

\* C3 as claimed: the flag is set exactly for more than 31 members; with the
\* flag set dirty() emits one comparison per word in use, otherwise a single
\* comparison against one mask.
C3_Claimed ==
    /\ r_pc = "done" => (context_overflow <=> Len(context) > 31)
    /\ Evaluated =>
          IF context_overflow
          THEN dirty_out.form = "words" /\ WordsTested = WordsMapped
          ELSE dirty_out.form = "mask"

\* C3 (amended): the flag is set exactly for more than 31 members; with the
\* flag set and at least one name mapped dirty() emits one comparison per
\* word in use; with the flag clear, or with no name mapped, it emits a
\* single comparison against one mask.
C3_OverflowForms ==
    /\ r_pc = "done" => (context_overflow <=> Len(context) > 31)
    /\ Evaluated =>
          IF context_overflow /\ MappedNames # {}
          THEN /\ dirty_out.form = "words"
               /\ WordsTested = WordsMapped
               /\ Len(dirty_out.terms) = Cardinality(WordsMapped)
          ELSE dirty_out.form = "mask" /\ Len(dirty_out.terms) = 1

C3_Witness ==
    /\ Evaluated
    /\ context_overflow
    /\ dirty_names # <<>>
    /\ MappedNames = {}
    /\ dirty_out.form = "mask"

\* C4: a name without a context member raises no error and adds nothing to
\* any mask; when no name is mapped the mask is 0.
C4_UnmappedDropped ==
    Evaluated =>
        /\ dirty_out.form # "throw"
        /\ MappedNames = {} =>
              dirty_out = [form |-> "mask", terms |-> <<[i |-> 0, n |-> 0]>>]
        /\ dirty_out = dirty(context, context_overflow, SelectSeq(dirty_names, Mapped))

C4_Witness ==
    /\ Evaluated
    /\ \E i \in 1..Len(dirty_names) : dirty_names[i] = Unknown
    /\ MappedNames # {}
    /\ MaskOf(0) > 0

\* C5: A has a smaller slot than B iff A has the higher priority, or the
\* same priority and the earlier registration.
C5_StableByPriority ==
    r_pc = "done" =>
        \A i, j \in 1..Len(context) :
            i # j =>
              ((context[i].index < context[j].index)
                <=> \/ context[i].priority > context[j].priority
                    \/ /\ context[i].priority = context[j].priority
                       /\ RegPos(context[i].name) < RegPos(context[j].name))

C5_Witness ==
    /\ r_pc = "done"
    /\ \E i, j \in 1..Len(context) :
          /\ context[i].priority = context[j].priority
          /\ RegPos(context[i].name) < RegPos(context[j].name)
    /\ \E i, j \in 1..Len(context) :
          /\ context[i].priority > context[j].priority
          /\ RegPos(context[i].name) > RegPos(context[j].name)

(***************************************************************************)
(* Reactive declarations: properties                                       *)
(***************************************************************************)
Assigns(d)   == Elems(unsorted[d].assignees)
DependsOn(d) == Elems(unsorted[d].dependencies)
\* v -> w: some declaration assigns v and depends on w without assigning w
GraphEdge(v, w) ==
    \E d \in 1..Len(unsorted) : v \in Assigns(d) /\ w \in DependsOn(d) /\ w \notin Assigns(d)
\* a closed walk v1 -> v2 -> ... -> vn -> v1 over the names
GraphHasCycle ==
    \E n \in 1..Cardinality(LetNames) :
        \E p \in [1..n -> LetNames] :
            /\ \A i \in 1..(n - 1) : GraphEdge(p[i], p[i + 1])
            /\ GraphEdge(p[n], p[1])
ListPos(d) == CHOOSE i \in 1..Len(reactive_declarations) : reactive_declarations[i] = d

\* C6: extract_reactive_declarations ends in the cyclical-reactive-declaration
\* error, with no ordered list, exactly when the assignee -> dependency graph
\* (self-edges left out) has a cycle.
C6_CycleIsFatal ==
    x_pc \in {"sorted", "error"} =>
        /\ (x_pc = "error") <=> GraphHasCycle
        /\ x_pc = "error" =>
              x_error = "cyclical-reactive-declaration" /\ reactive_declarations = <<>>
        /\ x_pc = "sorted" => x_error = ""

C6_Witness ==
    /\ x_pc = "error"
    /\ \E v, w \in LetNames : v # w /\ GraphEdge(v, w) /\ GraphEdge(w, v)

\* C7: in the ordered list, a declaration that assigns a name comes before
\* every declaration that depends on that name without assigning it.
C7_DependencyRespecting ==
    x_pc = "sorted" =>
        \A d1, d2 \in 1..Len(unsorted) :
            (\E name \in Assigns(d1) : name \in DependsOn(d2) /\ name \notin Assigns(d2))
              => /\ d1 \in Elems(reactive_declarations)
                 /\ d2 \in Elems(reactive_declarations)
                 /\ ListPos(d1) < ListPos(d2)

C7_Witness ==
    /\ x_pc = "sorted"
    /\ reactive_declarations = <<3, 2, 1>>
    /\ \E name \in Assigns(2) : name \in DependsOn(1) /\ name \notin Assigns(1)
    /\ \E name \in Assigns(3) : name \in DependsOn(2) /\ name \notin Assigns(2)

(***************************************************************************)
(* Reactive declarations: the order of the list                            *)
(***************************************************************************)
\* declaration e depends on a name that declaration d assigns and e does not
Needs(e, d) == \E name \in DependsOn(e) \ Assigns(e) : name \in Assigns(d)

RECURSIVE NeedsWithin(_, _, _)
\* e needs d directly or through at most n - 1 declarations between them
NeedsWithin(e, d, n) ==
    n > 0 /\ (Needs(e, d) \/ \E m \in 1..Len(unsorted) : Needs(e, m) /\ NeedsWithin(m, d, n - 1))

\* a dependency relation between two declarations, either way
Related(d1, d2) ==
    NeedsWithin(d1, d2, Len(unsorted)) \/ NeedsWithin(d2, d1, Len(unsorted))

\* every declaration is in the list once, and nothing else is
IsPermutation ==
    /\ Len(reactive_declarations) = Len(unsorted)
    /\ \A d \in 1..Len(unsorted) :
          Cardinality({i \in 1..Len(reactive_declarations) : reactive_declarations[i] = d}) = 1

\* C25 as stated: for acyclic input the list is a permutation of the
\* declarations, and two declarations with no dependency relation between
\* them are in the list in their textual order
C25_Claimed ==
    x_pc = "sorted" =>
        /\ IsPermutation
        /\ \A d1, d2 \in 1..Len(unsorted) :
              (d1 < d2 /\ ~Related(d1, d2)) => ListPos(d1) < ListPos(d2)

\* C25: for acyclic input the list is a permutation of the declarations, and
\* a declaration is placed before a textually earlier one only when that one,
\* or a declaration before it in the text, needs it, directly or through
\* other declarations
C25_PermutationNeededFirst ==
    x_pc = "sorted" =>
        /\ IsPermutation
        /\ \A d1, d2 \in 1..Len(unsorted) :
              (d1 < d2 /\ ListPos(d2) < ListPos(d1))
                  => \E e \in 1..d1 : NeedsWithin(e, d2, Len(unsorted))

\* the third declaration was placed first, for the first one, and so before
\* the second, which it has no dependency relation with
C25_Witness ==
    /\ x_pc = "sorted"
    /\ reactive_declarations = <<3, 1, 2>>
    /\ Needs(1, 3)
    /\ ~Related(2, 3)

\* the statement assigns v and reads another name w
SourceEdge(v, w) ==
    \E d \in 1..Len(reactive_src) :
        reactive_src[d].target = v /\ reactive_src[d].read = w /\ w # v
\* a closed walk over names through statements that assign one and read the next
SourceCycle ==
    \E n \in 1..Cardinality(LetNames) :
        \E p \in [1..n -> LetNames] :
            /\ \A i \in 1..(n - 1) : SourceEdge(p[i], p[i + 1])
            /\ SourceEdge(p[n], p[1])
IsCompound(d) == reactive_src[d].kind = "assign" /\ reactive_src[d].operator # "="

\* C26: the target of a compound assignment is an assignee and a dependency
\* of its declaration; that alone is no cycle: the cyclical error is raised
\* only for a ring through different names, and without it the declaration
\* is placed in the list once
C26_CompoundSelfDependency ==
    x_pc \in {"sorted", "error"} =>
        /\ \A d \in 1..Len(unsorted) :
              IsCompound(d) =>
                  /\ reactive_src[d].target \in Assigns(d)
                  /\ reactive_src[d].target \in DependsOn(d)
                  /\ x_pc = "sorted" =>
                        Cardinality({i \in 1..Len(reactive_declarations) :
                                        reactive_declarations[i] = d}) = 1
        /\ x_pc = "error" => SourceCycle

\* `$: a += b` after a statement assigning b: ordered behind it, no error
C26_Witness ==
    /\ x_pc = "sorted"
    /\ Len(unsorted) >= 2
    /\ IsCompound(Len(unsorted))
    /\ \E d \in 1..(Len(unsorted) - 1) : Needs(Len(unsorted), d)
    /\ x_error = ""

(***************************************************************************)
(* Properties of the parser                                                *)
(***************************************************************************)
BlockTypes == {"IfBlock", "EachBlock", "AwaitBlock"}
ChainTypes == {"ElseBlock", "PendingBlock", "ThenBlock", "CatchBlock"}
KwIf    == <<"i", "f">>
KwEach  == <<"e", "a", "c", "h">>
KwAwait == <<"a", "w", "a", "i", "t">>
ClosingKeywords == {KwIf, KwEach, KwAwait}
KindOf(kw) == IF kw = KwIf THEN "IfBlock"
              ELSE IF kw = KwEach THEN "EachBlock" ELSE "AwaitBlock"

\* the loop has left: the whole text is consumed
AtEndOfInput == Running /\ closed /\ index >= Len(ParserTemplate)

\* the mustache state is about to read {/kw at the cursor
ClosingAt(kw) ==
    state = "mustache" /\ Match(ParserTemplate, index, <<"{", "/">> \o kw)

\* the step taken is an application of the current state function
Applied == state' # state

\* the frame a closing mustache is held against: the innermost one, an open
\* <p> and one else/pending/then/catch frame above it set aside
Innermost ==
    LET n  == Len(stack)
        n1 == IF stack[n].type = "Element" /\ stack[n].name = <<"p">> THEN n - 1 ELSE n
        n2 == IF stack[n1].type \in ChainTypes THEN n1 - 1 ELSE n1
    IN stack[n2]

NoEachOpen == \A k \in 1..Len(stack) : stack[k].type # "EachBlock"

\* the ParseError on record was thrown by the close branch reading {/kw
RejectedClose(kw) ==
    /\ state = "error"
    /\ p_error_pos >= 2
    /\ Match(ParserTemplate, p_error_pos - 2, <<"{", "/">> \o kw)

\* C8: when the end of input is reached with more than the root Fragment on
\* the stack, parsing fails with a ParseError at the start of the innermost
\* open frame, unclosed-element when that frame is an Element and
\* unclosed-block otherwise, and never ends parsed.
C8_UnclosedAtEof ==
    [][(AtEndOfInput /\ Len(stack) > 1) =>
         /\ state' = "error"
         /\ p_error_pos' = stack[Len(stack)].start
         /\ p_error' = (IF stack[Len(stack)].type = "Element"
                        THEN "unclosed-element" ELSE "unclosed-block")]_allvars

C8_Witness ==
    /\ state = "error"
    /\ closed /\ index >= Len(ParserTemplate)
    /\ p_error = "unclosed-block"
    /\ stack[Len(stack)].type = "InlineComponent"
    /\ p_error_pos = stack[Len(stack)].start

\* C9: a closing mustache {/if}, {/each} or {/await} is accepted only when the
\* innermost open block (an auto-closable element and one else/pending/then/
\* catch frame set aside) is of the keyword's kind; held against a block of
\* another kind it raises a ParseError; the frames an accepted one pops hold
\* no block of another kind.
C9_CloseMatchesKind ==
    [][\A kw \in ClosingKeywords :
         (ClosingAt(kw) /\ Applied) =>
            /\ state' = "fragment" =>
                 /\ Innermost.type = KindOf(kw)
                 /\ Len(stack') < Len(stack)
                 /\ stack' = SubSeq(stack, 1, Len(stack'))
                 /\ \A k \in (Len(stack') + 1)..Len(stack) :
                        stack[k].type \in BlockTypes => stack[k].type = KindOf(kw)
            /\ (Innermost.type \in BlockTypes /\ Innermost.type # KindOf(kw)) =>
                 /\ state' = "error"
                 /\ p_error' # ""
                 /\ stack'[Len(stack')] = Innermost]_allvars

C9_Witness ==
    /\ RejectedClose(KwAwait)
    /\ p_error = "unexpected-token"
    /\ stack[Len(stack)].type = "EachBlock"

\* C10 as claimed: {/each} read while no EachBlock is on the stack raises
\* unexpected-block-close.
C10_Claimed ==
    [][(ClosingAt(KwEach) /\ Applied /\ NoEachOpen) =>
         (state' = "error" /\ p_error' = "unexpected-block-close")]_allvars

\* C10: {/each} read while no EachBlock is on the stack raises a ParseError
\* at the keyword: unexpected-token when the innermost open block is an
\* IfBlock or AwaitBlock, unexpected-block-close when the innermost frame is
\* no block at all.
C10_EachCloseWithoutEach ==
    [][(ClosingAt(KwEach) /\ Applied /\ NoEachOpen) =>
         /\ state' = "error"
         /\ p_error_pos' = index + 2
         /\ p_error' = (IF Innermost.type \in {"IfBlock", "AwaitBlock"}
                        THEN "unexpected-token" ELSE "unexpected-block-close")]_allvars

C10_Witness ==
    /\ RejectedClose(KwEach)
    /\ NoEachOpen
    /\ p_error = "unexpected-block-close"
    /\ stack[Len(stack)].type = "Element"

\* the node of a frame
NodeOf(ns, frame) ==
    ns[CHOOSE n \in 1..Len(ns) : /\ ns[n].type = frame.type
                                  /\ ns[n].start = frame.start
                                  /\ ns[n].elseif = frame.elseif]

TagNames == {<<"d", "i", "v">>, <<"p">>, <<"C">>}

\* the tag state is about to read the closing tag </name> at the cursor
ClosingTagAt(name) ==
    state = "tag" /\ Match(ParserTemplate, index, <<"<", "/">> \o name \o <<">">>)

\* C11: on a closing tag </name> every frame above the nearest frame named
\* name is popped with its end at the start of the closing tag and that frame
\* is popped with its end at the cursor after '>'; when a frame met on the
\* way is no Element (the root Fragment when no frame has the name) the
\* invalid-closing-tag error is raised at the start of the closing tag.
C11_ClosingTagScan ==
    [][\A name \in TagNames :
         (ClosingTagAt(name) /\ Applied) =>
            LET named == {k \in 1..Len(stack) : stack[k].name = name}
                k == CHOOSE m \in named : \A o \in named : o <= m
                clean == named # {} /\ \A j \in (k + 1)..Len(stack) : stack[j].type = "Element"
            IN IF clean
               THEN /\ state' = "fragment"
                    /\ index' = index + Len(name) + 3
                    /\ stack' = SubSeq(stack, 1, k - 1)
                    /\ NodeOf(nodes', stack[k]).end = index'
                    /\ \A j \in (k + 1)..Len(stack) : NodeOf(nodes', stack[j]).end = index
               ELSE /\ state' = "error"
                    /\ p_error' = "invalid-closing-tag"
                    /\ p_error_pos' = index]_allvars

C11_Witness ==
    /\ state = "fragment"
    /\ index >= 6 /\ Match(ParserTemplate, index - 6, <<"<", "/", "d", "i", "v", ">">>)
    /\ \E d, e \in 1..Len(nodes) :
          /\ nodes[d].name = <<"d", "i", "v">> /\ nodes[d].end = index
          /\ nodes[e].name = <<"p">> /\ nodes[e].end = index - 6
          /\ nodes[e].ptype = "Element" /\ nodes[e].pstart = nodes[d].start

\* C12 as claimed: no element is created with two attributes of the same name
\* unless they are on: event handlers (plain attributes, other directives and
\* the shorthand {name} raise duplicate-attribute), and a repeated on: handler
\* never raises duplicate-attribute.
C12_Claimed ==
    /\ \A n \in 1..Len(nodes) :
          \A i, j \in 1..Len(nodes[n].attributes) :
              (i < j /\ nodes[n].attributes[i].name = nodes[n].attributes[j].name
                     /\ nodes[n].attributes[i].type # "Spread")
                => (nodes[n].attributes[i].type = "EventHandler"
                    /\ nodes[n].attributes[j].type = "EventHandler")
    /\ (state = "error" /\ p_error = "duplicate-attribute")
          => ~Match(ParserTemplate, p_error_pos, <<"o", "n", ":">>)

\* the loop has ended with nothing left open: parse makes its checks
ParseChecks == Running /\ closed /\ index >= Len(ParserTemplate)
                       /\ Len(stack) = 1 /\ state = "fragment"

\* C13: parse fails with duplicate-style when the template has more than one
\* top-level style block and with invalid-script when it has more than one
\* default-context script or more than one module-context script; otherwise
\* it returns, and what it returns has at most one of each.
C13_DuplicateBlocks ==
    [][(ParseChecks /\ Applied) =>
          IF Len(css(nodes)) > 1
          THEN state' = "error" /\ p_error' = "duplicate-style"
          ELSE IF Len(instance_scripts(nodes)) > 1 \/ Len(module_scripts(nodes)) > 1
          THEN state' = "error" /\ p_error' = "invalid-script"
          ELSE /\ state' = "parsed"
               /\ Len(css(nodes')) <= 1
               /\ Len(instance_scripts(nodes')) <= 1
               /\ Len(module_scripts(nodes')) <= 1]_allvars

C13_Witness ==
    /\ state = "error"
    /\ p_error = "invalid-script"
    /\ Len(module_scripts(nodes)) = 2
    /\ Len(instance_scripts(nodes)) = 1
    /\ Len(css(nodes)) = 1
    /\ p_error_pos = module_scripts(nodes)[2].start

\* the node that holds node n: the root Fragment, or the node named by the
\* type, start and elseif recorded when n was created
HolderOf(ns, n) ==
    IF ns[n].ptype = "Fragment" THEN ns[1]
    ELSE NodeOf(ns, [type |-> ns[n].ptype, start |-> ns[n].pstart, elseif |-> ns[n].pelseif])

\* the nodes of the tree below the root (scripts and styles are held by the
\* parser, not by a node)
Held(ns) == {n \in 2..Len(ns) : ns[n].ptype # "Parser"}

\* two nodes in the same children array
Siblings(ns, n, m) ==
    /\ n # m
    /\ ns[n].via = "children" /\ ns[m].via = "children"
    /\ ns[n].ptype = ns[m].ptype /\ ns[n].pstart = ns[m].pstart /\ ns[n].pelseif = ns[m].pelseif

\* C14 as claimed: in the tree the parser returns every node lies within the
\* span of the node that holds it (the trimmed root Fragment and an ElseBlock
\* holding an else-if IfBlock included), and siblings do not overlap.
C14_Claimed ==
    state = "parsed" =>
        /\ \A n \in Held(nodes) :
              /\ HolderOf(nodes, n).start <= nodes[n].start
              /\ nodes[n].end <= HolderOf(nodes, n).end
        /\ \A n, m \in Held(nodes) :
              Siblings(nodes, n, m) =>
                 (nodes[n].end <= nodes[m].start \/ nodes[m].end <= nodes[n].start)

\* the tree returned for {#if x}{:else if x}{/if}: the else-if IfBlock ends
\* after {/if}, the ElseBlock that holds it before {/if}
C14_ElseIfOutsideElse ==
    /\ state = "parsed"
    /\ \E n \in Held(nodes) :
          /\ nodes[n].elseif
          /\ HolderOf(nodes, n).type = "ElseBlock"
          /\ nodes[n].end = Len(ParserTemplate)
          /\ HolderOf(nodes, n).end = Len(ParserTemplate) - 5

\* the tree returned for a text that starts with whitespace: the root starts
\* after the whitespace, its first child at 0
C14_ChildBeforeRoot ==
    /\ state = "parsed"
    /\ nodes[1].start > 0
    /\ \E n \in Held(nodes) : nodes[n].ptype = "Fragment" /\ nodes[n].start = 0

\* a state function is applied (constructor line 350)
Applying == Running /\ index < Len(ParserTemplate) /\ Ready /\ Applied

\* C15: an application of a state function never moves the cursor back (the
\* reset inside read_expression goes back no further than where that call
\* began), an application of the tag, mustache or text state that returns
\* has moved it forward, and so on a complete template the loop ends: the
\* parser reaches the end of the input or raises an error.
C15_CursorAdvances ==
    /\ [][Applying =>
             /\ index' >= index
             /\ (state \in {"tag", "mustache", "text"} /\ state' # "error") => index' > index]_allvars
    /\ (closed ~> ~Running)

C15_Witness ==
    /\ state = "parsed"
    /\ \E n, m \in 1..Len(nodes) :
          /\ nodes[n].type = "MustacheTag"
          /\ At(template, nodes[n].start + 1) = "("
          /\ nodes[n].end = nodes[n].start + 5
          /\ nodes[m].type = "Element"
          /\ nodes[m].end > nodes[m].start

(***************************************************************************)
(* Component: properties of the analysis passes                            *)
(***************************************************************************)
\* the passes before hoisting have all run
Analysed == a_pc \in {"hoist", "done", "again"}

\* C16 as stated: after the analysis passes vars holds no two entries of the
\* same name, also when the module script and the instance script declare the
\* same name, and var_lookup gives the one entry of each name
C16_Claimed ==
    a_pc \in {"instance", "fragment", "post", "hoist", "done", "again"} =>
        \A i, j \in 1..Len(vars) :
            vars[i].name = vars[j].name => i = j /\ var_lookup(vars, vars[i].name) = i

\* some top-level declaration of the script has a name whose first character
\* is '$'
DollarDeclared(body) == \E name \in DeclaredNames(body) : name[1] = "$"

\* C17: the pass over a script with a top-level declaration of a name that
\* begins with '$' ends in the error illegal-declaration, and after an error
\* no pass runs: neither the template nor a later pass is reached
C17_IllegalDeclaration ==
    [][/\ a_pc # "error"
       /\ (\/ a_pc = "module" /\ DollarDeclared(module_body)
           \/ a_pc = "instance" /\ DollarDeclared(instance_body))
          => a_pc' = "error" /\ a_error' = "illegal-declaration"]_allvars

C17_Witness ==
    /\ a_pc = "error"
    /\ a_error = "illegal-declaration"
    /\ DollarDeclared(instance_body)
    /\ ~DollarDeclared(module_body)
    /\ Len(vars) > 0

\* the names the scripts and the template refer to
ReadNames ==
    Referenced(module_body) \cup Referenced(instance_body)
        \cup {template_refs[r] : r \in 1..Len(template_refs)}

\* the variable is read in a script or in the template, or used as a store
ReadSomewhere(name) == name \in ReadNames \/ <<"$">> \o name \in ReadNames

Warned(name) == \E w \in 1..Len(warnings) : warnings[w] = name

\* C18 as stated: once the passes have run, an exported let or var variable
\* has the warning unused-export-let exactly if it is read nowhere
C18_Claimed ==
    Analysed =>
        \A i \in 1..Len(vars) :
            vars[i].export_name /\ vars[i].writable
                => (Warned(vars[i].name) <=> ~ReadSomewhere(vars[i].name))

\* the variable declarations of the instance script body
Declarations == {k \in 1..Len(instance_body) : instance_body[k].type = "VariableDeclaration"}

DeclaratorsOf(node) == {node.declarators[d] : d \in 1..Len(node.declarators)}

\* what the claim asks of the declarators, on the variable table as it is
LiteralInitialised(node) == \A d \in DeclaratorsOf(node) : d.init = "Literal"
NoneReassigned(node) == \A d \in DeclaratorsOf(node) : ~vars[var_lookup(vars, d.name)].reassigned
NoneExported(node) == \A d \in DeclaratorsOf(node) : ~vars[var_lookup(vars, d.name)].export_name
NoneOfModule(node) == \A d \in DeclaratorsOf(node) : d.name \notin DeclaredNames(module_body)

\* the step moved the declaration out of the body
IsHoisted(node) ==
    /\ \E h \in 1..Len(fully_hoisted') : fully_hoisted'[h] = node
    /\ \A k \in 1..Len(instance_body') : instance_body'[k] # node
    /\ \A d \in DeclaratorsOf(node) : vars'[var_lookup(vars', d.name)].hoistable

\* the step left the declaration where it was
IsKept(node) ==
    /\ \A h \in 1..Len(fully_hoisted') : fully_hoisted'[h] # node
    /\ \E k \in 1..Len(instance_body') : instance_body'[k] = node
    /\ \A d \in DeclaratorsOf(node) : ~vars'[var_lookup(vars', d.name)].hoistable

\* C19 as stated: a variable declaration is hoisted exactly if every
\* declarator has a literal initialiser, none of its variables is reassigned
\* or exported, and it is a const declaration when the build is not a
\* development build
C19_Claimed ==
    [][a_pc = "hoist" =>
          \A k \in Declarations :
              IsHoisted(instance_body[k]) <=>
                  /\ LiteralInitialised(instance_body[k])
                  /\ NoneReassigned(instance_body[k])
                  /\ NoneExported(instance_body[k])
                  /\ (~dev => instance_body[k].kind = "const")]_allvars

\* C19: hoist_instance_declarations hoists a variable declaration (marks its
\* variables hoistable, removes it from the body, appends it to
\* fully_hoisted) if every declarator has a literal initialiser, none of its
\* variables is reassigned or exported or shares its name with a variable of
\* the module script, and the declaration is a const one when the build is a
\* development build; it leaves every other variable declaration in place
C19_HoistedDeclarations ==
    [][a_pc = "hoist" =>
          \A k \in Declarations :
              IF /\ LiteralInitialised(instance_body[k])
                 /\ NoneReassigned(instance_body[k])
                 /\ NoneExported(instance_body[k])
                 /\ NoneOfModule(instance_body[k])
                 /\ (dev => instance_body[k].kind = "const")
              THEN IsHoisted(instance_body[k])
              ELSE IsKept(instance_body[k])]_allvars

C19_Witness ==
    /\ a_pc = "done"
    /\ dev
    /\ \E h \in 1..Len(fully_hoisted) :
           fully_hoisted[h].type = "VariableDeclaration" /\ fully_hoisted[h].kind = "const"
    /\ \E k \in 1..Len(instance_body) :
           /\ instance_body[k].type = "VariableDeclaration"
           /\ instance_body[k].kind = "let"
           /\ \A d \in 1..Len(instance_body[k].declarators) :
                  /\ instance_body[k].declarators[d].init = "Literal"
                  /\ ~vars[var_lookup(vars, instance_body[k].declarators[d].name)].reassigned

\* the names a top-level statement declares
NamesOf(node) == {NodeDeclarations(node)[d].name : d \in 1..Len(NodeDeclarations(node))}

\* how many times the node stands in the list
Count(list, node) == Cardinality({k \in 1..Len(list) : list[k] = node})

\* C20: a declaration that hoist_instance_declarations finds hoistable (its
\* variables carry the flag hoistable afterwards) is no longer in the body
\* and stands once in fully_hoisted; a second run of
\* hoist_instance_declarations on the state the first run left changes
\* neither the body nor fully_hoisted nor a flag of a variable
C20_HoistOnce ==
    [][/\ a_pc = "hoist" =>
              \A k \in 1..Len(instance_body) :
                  /\ NamesOf(instance_body[k]) # {}
                  /\ \A name \in NamesOf(instance_body[k]) :
                         vars'[var_lookup(vars', name)].hoistable
                  => /\ Count(fully_hoisted', instance_body[k]) = 1
                     /\ Count(instance_body', instance_body[k]) = 0
       /\ a_pc = "done" =>
              /\ instance_body' = instance_body
              /\ fully_hoisted' = fully_hoisted
              /\ vars' = vars]_allvars

C20_Witness ==
    /\ a_pc = "again"
    /\ \E h \in 1..Len(fully_hoisted) : fully_hoisted[h].type = "VariableDeclaration"
    /\ \E h \in 1..Len(fully_hoisted) : fully_hoisted[h].type = "FunctionDeclaration"
    /\ instance_body = <<>>

(***************************************************************************)
(* Component: properties of the warning suppression                        *)
(***************************************************************************)
\* the warn calls whose code no scope open at the call listed
Unsuppressed == SelectSeq(asked, LAMBDA call : call.code \notin call.active)

\* C21: the warnings recorded are the warn calls whose code is in no ignore
\* list of a scope pushed and not yet popped at the call, in call order, and
\* this.ignores holds the codes of exactly those scopes (none at all once
\* every scope is popped)
C21_ScopedSuppression ==
    /\ warnings = [k \in 1..Len(Unsuppressed) |-> Unsuppressed[k].code]
    /\ (IF ignores = <<>> THEN {} ELSE ignores[1]) = Active
    /\ Len(ignore_stack) = Len(open_scopes)

C21_Witness ==
    /\ open_scopes = <<>>
    /\ \E i, j \in 1..Len(asked) :
           /\ i < j
           /\ asked[i].code = asked[j].code
           /\ asked[i].code \in asked[i].active
           /\ asked[j].active = {}
    /\ Len(warnings) = 1

\* the position on the stack of the innermost block opened by {#, 0 when no
\* block is open
OpenBlock ==
    LET blocks == {k \in 1..Len(stack) : stack[k].type \in BlockTypes /\ ~stack[k].elseif}
    IN IF blocks = {} THEN 0 ELSE CHOOSE k \in blocks : \A j \in blocks : j <= k

\* the frames above the innermost open block are the else-if blocks of its
\* chain, then at most one else/pending/then/catch frame, then at most one
\* element
ChainAbove(k) ==
    LET elseifs == {j \in (k + 1)..Len(stack) : stack[j].elseif}
        rest == (k + Cardinality(elseifs) + 1)..Len(stack)
    IN /\ elseifs = (k + 1)..(k + Cardinality(elseifs))
       /\ \A j \in elseifs : stack[j].type = "IfBlock"
       /\ Cardinality(rest) <= 2
       /\ \A j \in rest :
              \/ stack[j].type \in ChainTypes /\ (j = Len(stack) \/ stack[j + 1].type = "Element")
              \/ stack[j].type = "Element" /\ j = Len(stack)

\* C22: an accepted closing mustache pops the else-if blocks of the chain, at
\* most one else/pending/then/catch frame, at most one auto-closed element
\* and the block opened by {# itself, and nothing else; an accepted {# pushes
\* its block on the stack as it is, and no other accepted step touches the
\* innermost open block or a frame below it: the stack after the close is the
\* stack before the matching {#
C22_CloseRestoresStack ==
    [][(Applied /\ state' # "error") =>
          IF \E kw \in ClosingKeywords : ClosingAt(kw)
          THEN /\ OpenBlock > 0
               /\ ChainAbove(OpenBlock)
               /\ stack' = SubSeq(stack, 1, OpenBlock - 1)
          ELSE IF state = "mustache" /\ Match(ParserTemplate, index, <<"{", "#">>)
          THEN /\ SubSeq(stack', 1, Len(stack)) = stack
               /\ Len(stack') > Len(stack)
               /\ stack'[Len(stack) + 1].type \in BlockTypes
               /\ ~stack'[Len(stack) + 1].elseif
               /\ \A j \in (Len(stack) + 2)..Len(stack') : stack'[j].type \in ChainTypes
          ELSE /\ Len(stack') >= OpenBlock
               /\ SubSeq(stack', 1, OpenBlock) = SubSeq(stack, 1, OpenBlock)
               /\ \A j \in (OpenBlock + 1)..Len(stack') :
                      stack'[j].type \in BlockTypes => stack'[j].elseif]_allvars

C22_Witness ==
    /\ state = "fragment"
    /\ stack = <<Root>>
    /\ Cardinality({n \in 1..Len(nodes) :
                       nodes[n].type = "IfBlock" /\ nodes[n].elseif /\ nodes[n].end >= 0}) >= 2

(***************************************************************************)
(* Component: is_hoistable, call by call                                   *)
(***************************************************************************)
\* the loop over the functions is over
Walked == vars # <<>> /\ walk_k > Len(walk_fns)

\* the function at position i refers to the one at position j
RefersTo(i, j) == \E r \in 1..Len(walk_fns[i].refs) : walk_fns[i].refs[r] = walk_fns[j].name

\* C23: for every finite set of top-level functions, however they refer to
\* one another, the loop of is_hoistable calls comes to its end: the calls in
\* progress are calls for distinct functions, so never more of them than
\* functions, each is for a function in the Set walking, and every function gets
\* its verdict
C23_WalkTerminates ==
    /\ [](/\ Len(walk_stack) <= Len(walk_fns)
          /\ \A i, j \in 1..Len(walk_stack) : walk_stack[i].fn = walk_stack[j].fn => i = j
          /\ walking_fns = {walk_fns[walk_stack[i].fn].name : i \in 1..Len(walk_stack)})
    /\ <>Walked

\* three functions referring to one another in a ring have been checked
C23_Witness ==
    /\ Walked
    /\ walk_stack = <<>>
    /\ Len(walk_fns) = 3
    /\ \E i, j, k \in 1..3 :
          /\ {i, j, k} = {1, 2, 3}
          /\ RefersTo(i, j) /\ RefersTo(j, k) /\ RefersTo(k, i)

\* the functions of the script as a set: what is left of the Map when the
\* order of its entries is forgotten
FunctionSet == {walk_fns[k] : k \in 1..Len(walk_fns)}

\* the names of the instance level a function may refer to and still be
\* hoisted, whatever the functions are: the hoistable variables of the script
\* that are neither reassigned nor mutated
HoistableNames ==
    LET vs == WalkVars(<<>>)
    IN {vs[i].name : i \in {j \in 1..Len(vs) :
                               vs[j].hoistable /\ ~vs[j].reassigned /\ ~vs[j].mutated}}

\* the names of the instance level: the variables and functions the script
\* declares, and the store subscriptions injected into the instance
InstanceNames ==
    LET vs == WalkVars(walk_fns)
    IN {vs[i].name : i \in 1..Len(vs)} \cup {StoreA}

RECURSIVE Judged(_)
\* the rule, applied n times from nothing: a function is hoistable when every
\* name of the instance level it refers to is itself, a hoistable variable,
\* or a function the rule has judged hoistable already
Judged(n) ==
    IF n = 0 THEN {}
    ELSE LET before == Judged(n - 1)
         IN {fn.name : fn \in {g \in FunctionSet :
                \A r \in 1..Len(g.refs) :
                    g.refs[r] \in InstanceNames =>
                        g.refs[r] \in {g.name} \cup HoistableNames \cup before}}

RECURSIVE Reaches(_, _, _)
\* the function at i refers to the one at j through at most n references
Reaches(i, j, n) ==
    n > 0 /\ (RefersTo(i, j) \/ \E m \in 1..Len(walk_fns) : RefersTo(i, m) /\ Reaches(m, j, n - 1))

\* the verdict the loop of lines 1233-1243 left on the variable
Verdict(k) == vars[var_lookup(vars, walk_fns[k].name)].hoistable

TheOccurrences == {reactive_src[1][k] : k \in 1..Len(reactive_src[1])}
InInstanceScope(occ) == occ.name \in ScopedDeclared /\ occ.name \notin occ.inner
InNestedScope(occ) == occ.name \in occ.inner
IsTarget(occ) == occ.role # "read"

\* C27 as stated: the dependency set of the declaration holds every name the
\* statement reads that resolves to the instance scope or starts with '$',
\* the identifiers that are assignment targets apart, and a name is not in
\* it for an identifier that resolves to a nested scope
C27_Claimed ==
    x_pc = "sorted" =>
        /\ \A occ \in TheOccurrences :
              (occ.role = "read" /\ (InInstanceScope(occ) \/ IsDollar(occ.name)))
                  => occ.name \in DependsOn(1)
        /\ \A name \in DependsOn(1) :
              \E occ \in TheOccurrences : occ.name = name /\ ~InNestedScope(occ)

\* C28: after track_references_and_mutations the variables are as before
\* but for: reassigned on a variable of the instance scope that is the
\* target of an assignment or update by its name, mutated on one that is the
\* target by a member path, referenced_from_script on one that is referred
\* to; an identifier that resolves to a nested scope or to no scope of the
\* instance script changes nothing
C28_TargetsFlagged ==
    x_pc = "reactive" =>
        /\ Len(vars) = Len(ScopedVars)
        /\ \A i \in 1..Len(vars) :
              LET here == {occ \in TheOccurrences :
                              occ.name = vars[i].name /\ InInstanceScope(occ)}
              IN vars[i] =
                     [ScopedVars[i] EXCEPT
                         !.reassigned = \E occ \in here : IsTarget(occ) /\ ~occ.deep,
                         !.mutated = @ \/ \E occ \in here : IsTarget(occ) /\ occ.deep,
                         !.referenced_from_script = here # {}]

\* o.x = ... outside any function made o mutated, and a = ... inside a
\* function with its own a left the variable a as it was
C28_Witness ==
    /\ x_pc = "reactive"
    /\ \E occ \in TheOccurrences :
          occ.name = NameO /\ occ.role = "=" /\ occ.deep /\ occ.inner = {}
    /\ \E occ \in TheOccurrences :
          occ.name = NameA /\ occ.role = "=" /\ ~occ.deep /\ occ.inner = {NameA}
    /\ vars[var_lookup(vars, NameO)].mutated
    /\ ~vars[var_lookup(vars, NameO)].reassigned
    /\ vars[var_lookup(vars, NameA)] = ScopedVars[var_lookup(ScopedVars, NameA)]

(***************************************************************************)
(* Component: properties of the globals of the instance script             *)
(***************************************************************************)
\* the names the module script left in the variable table
ModuleKnown == DeclaredNames(module_body) \cup Referenced(module_body)
\* the free identifiers of the instance script
FreeNames == {name \in Referenced(instance_body) : name \notin DeclaredNames(instance_body)}
\* where the script first refers to the name
FirstReference(name) ==
    CHOOSE r \in 1..Len(References(instance_body, 1)) :
        /\ References(instance_body, 1)[r] = name
        /\ \A q \in 1..(r - 1) : References(instance_body, 1)[q] # name
\* the names pre-registered from the left of a reactive assignment
ReactiveLefts ==
    {instance_body[k].name : k \in {j \in 1..Len(instance_body) :
        instance_body[j].type = "LabeledStatement" /\ ~instance_body[j].member}}
    \ (ModuleKnown \cup {name \in Referenced(instance_body) : name[1] = "$"})
\* `$`, and the names starting with `$$` but the all-props name
IllegalGlobal(name) ==
    name[1] = "$" /\ name # PropsName /\ (Len(name) = 1 \/ name[2] = "$")
\* the variable of the name exists when the globals loop comes to `$name`
ExistsBefore(name, store) ==
    \/ name \in ModuleKnown \cup DeclaredNames(instance_body)
    \/ name \in FreeNames /\ FirstReference(name) < FirstReference(store)
VarOf(name) == vars[var_lookup(vars, name)]

\* C29: the pass over the instance script ends in illegal-global exactly
\* when a free identifier is `$` or starts with `$$` and is not the all-props
\* name; otherwise each free identifier has its variable by the first rule
\* that applies: a known variable is left alone; a name from the left of a
\* reactive assignment is injected and writable; the all-props name is
\* injected; `$foo` is injected, mutated and writable, and foo, when it has
\* a variable by then, is subscribable, referenced and
\* referenced_from_script; any other name is a global
C29_FreeIdentifiers ==
    /\ a_error = "illegal-global" <=>
          (a_pc = "error" /\ \E name \in FreeNames : IllegalGlobal(name))
    /\ a_pc = "fragment" =>
          \A name \in FreeNames :
              /\ var_lookup(vars, name) # 0
              /\ IF name \in ModuleKnown
                 THEN VarOf(name).module
                      /\ Cardinality({i \in 1..Len(vars) : vars[i].name = name}) = 1
                 ELSE IF name \in ReactiveLefts
                 THEN VarOf(name).injected /\ VarOf(name).writable /\ ~VarOf(name).global
                 ELSE IF name = PropsName
                 THEN VarOf(name).injected /\ ~VarOf(name).writable /\ ~VarOf(name).mutated
                 ELSE IF name[1] = "$"
                 THEN /\ VarOf(name).injected /\ VarOf(name).mutated /\ VarOf(name).writable
                      /\ ExistsBefore(Tail(name), name) =>
                            /\ var_lookup(vars, Tail(name)) # 0
                            /\ VarOf(Tail(name)).subscribable
                            /\ VarOf(Tail(name)).referenced
                            /\ VarOf(Tail(name)).referenced_from_script
                      /\ (var_lookup(vars, Tail(name)) # 0 /\ VarOf(Tail(name)).subscribable)
                            => ExistsBefore(Tail(name), name)
                 ELSE VarOf(name).global /\ VarOf(name).hoistable /\ ~VarOf(name).injected

\* `$: b = 1; $a` beside a module script declaring a: b is injected and
\* writable, $a is a store subscription and a is subscribable
C29_Witness ==
    /\ a_pc = "fragment"
    /\ NameA \in ModuleKnown
    /\ FreeNames = {NameB, StoreA}
    /\ NameB \in ReactiveLefts
    /\ VarOf(NameB).injected
    /\ VarOf(StoreA).mutated
    /\ VarOf(NameA).subscribable

(***************************************************************************)
(* Renderer.invalidate: properties                                         *)
(***************************************************************************)
\* the call was a bare one: no value, and none of the returns of lines
\* 172-188 applies
InvalidatedVariable == VarLookup(inv_name)
BareInvalidation ==
    /\ inv_out # NoInvalidate
    /\ inv_value = <<>>
    /\ ~(/\ InvalidatedVariable # <<>>
         /\ InvalidatedVariable[1].subscribable
         /\ InvalidatedVariable[1].reassigned \/ InvalidatedVariable[1].export_name)
    /\ inv_name[1] # "$"
    /\ ~(/\ InvalidatedVariable # <<>>
         /\ ~InvalidatedVariable[1].referenced
         /\ ~InvalidatedVariable[1].is_reactive_dependency
         /\ ~InvalidatedVariable[1].export_name)

RECURSIVE DependentsWithin(_, _)
\* the names reached from S in at most n steps, a step going from a name to
\* the names assigned by a declaration that depends on it
DependentsWithin(S, n) ==
    IF n = 0 THEN S
    ELSE DependentsWithin(
             S \cup UNION {Assigns(d) : d \in {e \in 1..Len(unsorted) : DependsOn(e) \cap S # {}}},
             n - 1)

RECURSIVE DependenciesWithin(_, _)
\* the names reached from S in at most n steps, a step going from a name to
\* the dependencies of a declaration that assigns it
DependenciesWithin(S, n) ==
    IF n = 0 THEN S
    ELSE DependenciesWithin(
             S \cup UNION {DependsOn(d) : d \in {e \in 1..Len(unsorted) : Assigns(e) \cap S # {}}},
             n - 1)

\* every name a declaration mentions, and how many there can be beside one
Mentioned == UNION {Assigns(d) \cup DependsOn(d) : d \in 1..Len(unsorted)}
Slotted(S) == {name \in S : ContextHas(context, name)}
Calls == {inv_out.calls[i] : i \in 1..Len(inv_out.calls)}

\* the calls are those for the names of S that have a slot now
CallsFor(S) ==
    /\ Calls = Slotted(S)
    /\ inv_out.form = "null" <=> Calls = {}

\* C30 as stated: a bare invalidation of n gives one call for each name with
\* a slot among n and the names that depend on it, directly or through other
\* reactive declarations, and no expression when there is none
C30_Claimed ==
    [][(inv_out' # inv_out /\ BareInvalidation')
          => CallsFor(DependentsWithin({inv_name}, Cardinality(Mentioned)))']_allvars

\* C30: a bare invalidation of n gives one call for each name with a slot
\* among n and the names n depends on, directly or through other reactive
\* declarations (the dependencies of the declarations assigning a collected
\* name), n first when it has a slot, no name twice, and no expression when
\* there is none
InOrder ==
    /\ \A i, j \in 1..Len(inv_out.calls) : inv_out.calls[i] = inv_out.calls[j] => i = j
    /\ ContextHas(context, inv_name) => inv_out.calls[1] = inv_name
    /\ inv_out.form \in {"null", "sequence"}

C30_DependenciesInvalidated ==
    [][(inv_out' # inv_out /\ BareInvalidation')
          => (/\ CallsFor(DependenciesWithin({inv_name}, Cardinality(Mentioned)))
              /\ InOrder)']_allvars

\* v1 = v2 and v2 = v3: invalidating v1 gave the calls for v1, v2, v3, and
\* invalidating v3 would give one
C30_Witness ==
    /\ BareInvalidation
    /\ inv_name = VarName(1)
    /\ inv_out.form = "sequence"
    /\ inv_out.calls = <<VarName(1), VarName(2), VarName(3)>>
    /\ VarName(1) \notin DependentsWithin({VarName(3)}, 0)
    /\ VarName(2) \in DependentsWithin({VarName(3)}, 1)

(***************************************************************************)
(* Renderer.invalidate: properties of the routes                           *)
(***************************************************************************)
\* the tests of the routes on the name of the call, each taken alone
IsSubscribed ==
    /\ InvalidatedVariable # <<>>
    /\ InvalidatedVariable[1].subscribable
    /\ (InvalidatedVariable[1].reassigned \/ InvalidatedVariable[1].export_name)
IsStoreValue == inv_name[1] = "$"
IsUnobserved ==
    /\ InvalidatedVariable # <<>>
    /\ ~InvalidatedVariable[1].referenced
    /\ ~InvalidatedVariable[1].is_reactive_dependency
    /\ ~InvalidatedVariable[1].export_name
    /\ inv_name[1] \notin {"$$props", "$$scope", "$$slots"}
HasValue == inv_value # <<>>

\* the first route whose test holds
Route ==
    IF IsSubscribed THEN 1
    ELSE IF IsStoreValue THEN 2
    ELSE IF IsUnobserved THEN 3
    ELSE IF HasValue THEN 4
    ELSE 5

\* the route the expression shows; reading the slot of a name without a
\* member throws, which routes 1 and 4 do
RouteTaken(r) ==
    LET member == ContextHas(context, inv_name)
    IN CASE r = 1 -> IF member
                     THEN inv_out.form = "subscribe" /\ inv_out.calls = <<inv_name>>
                     ELSE inv_out.form = "throw"
         [] r = 2 -> inv_out.form = "set" /\ inv_out.calls = <<>>
         [] r = 3 -> inv_out.form = "pass" /\ inv_out.calls = <<>>
         [] r = 4 -> IF member
                     THEN inv_out.form = "invalidate" /\ inv_out.calls = <<inv_name>>
                     ELSE inv_out.form = "throw"
         [] r = 5 -> inv_out.form \in {"null", "sequence"}

MemberReferenced(m) == m.variable # <<>> /\ m.variable[1].referenced
MemberExported(m)   == m.variable # <<>> /\ m.variable[1].export_name
MemberWritten(m)    ==
    m.variable # <<>> /\ (m.variable[1].mutated \/ m.variable[1].reassigned)

\* C32: once the slots are given, a member whose Variable is referenced has
\* a smaller slot than every member whose Variable is not referenced or that
\* has none; with the same referenced status an exported member has a smaller
\* slot than every one not exported; with the same referenced and exported
\* status a mutated or reassigned member has a smaller slot than every one
\* that is neither, whatever is_contextual is on either side
C32_BonusesDominate ==
    r_pc = "done" =>
        \A i, j \in 1..Len(context) :
            LET a == context[i]
                b == context[j]
            IN /\ (MemberReferenced(a) /\ ~MemberReferenced(b)) => a.index < b.index
               /\ (/\ MemberReferenced(a) = MemberReferenced(b)
                   /\ MemberExported(a) /\ ~MemberExported(b)) => a.index < b.index
               /\ (/\ MemberReferenced(a) = MemberReferenced(b)
                   /\ MemberExported(a) = MemberExported(b)
                   /\ MemberWritten(a) /\ ~MemberWritten(b)) => a.index < b.index

\* a contextual, referenced member with no other bonus sits before a
\* non-contextual member that is exported and reassigned, and an exported
\* contextual one before a reassigned one, with a member without a Variable
\* behind them
C32_Witness ==
    /\ r_pc = "done"
    /\ \E i, j \in 1..Len(context) :
          /\ context[i].is_contextual /\ ~context[j].is_contextual
          /\ MemberReferenced(context[i]) /\ ~MemberExported(context[i])
          /\ ~MemberWritten(context[i])
          /\ ~MemberReferenced(context[j]) /\ MemberExported(context[j])
          /\ MemberWritten(context[j])
          /\ context[i].index < context[j].index
    /\ \E k \in 1..Len(context) : context[k].variable = <<>>

(***************************************************************************)
(* Renderer: the single word of a context without overflow                 *)
(***************************************************************************)
\* C33: with the overflow flag false after the constructor, every member has
\* a slot below 31, so dirty() maps every name to word 0 and finds the mask
\* of word 0 defined whenever a name is mapped; and no member ever holds the
\* index -1, at registration or when dirty() is evaluated
C33_SingleWordDefined ==
    /\ \A i \in 1..Len(context) : context[i].index # -1
    /\ (r_pc = "done" /\ ~context_overflow) =>
          \A i \in 1..Len(context) : context[i].index \in 0..(WordBits - 1)
    /\ (Evaluated /\ ~context_overflow) =>
          /\ WordsMapped \subseteq {0}
          /\ dirty_out.form = "mask"
          /\ MappedNames # {} =>
                /\ get_bitmask(context, dirty_names, <<>>) # <<>>
                /\ get_bitmask(context, dirty_names, <<>>)[1][1].set

\* 31 members, the flag false, and dirty() asked for the name in the last
\* slot of the word
C33_Witness ==
    /\ Evaluated
    /\ ~context_overflow
    /\ Len(context) = WordBits
    /\ \E nm \in MappedNames : Slot(nm) = WordBits - 1
    /\ dirty_out.form = "mask"
    /\ MaskOf(0) >= 2 ^ (WordBits - 1)

(***************************************************************************)
(* Parser: the placement of {:else} and {:else if}                         *)
(***************************************************************************)
\* the mustache state is about to read {:else if or a plain {:else at the cursor
ElseIfAt ==
    /\ state = "mustache"
    /\ Match(ParserTemplate, index, <<"{", ":", "e", "l", "s", "e">>)
    /\ Match(ParserTemplate, SkipWs(ParserTemplate, index + 6), <<"i", "f">>)
PlainElseAt ==
    /\ state = "mustache"
    /\ Match(ParserTemplate, index, <<"{", ":", "e", "l", "s", "e">>)
    /\ ~Match(ParserTemplate, SkipWs(ParserTemplate, index + 6), <<"i", "f">>)

\* the else branches hanging on the node a frame stands for
ElsesOf(type, start, elseif) ==
    {n \in 1..Len(nodes) : /\ nodes[n].via = "else"
                           /\ nodes[n].ptype = type
                           /\ nodes[n].pstart = start
                           /\ nodes[n].pelseif = elseif}
\* the branch holds an else-if block
HoldsElseIf(n) ==
    \E m \in 1..Len(nodes) : /\ nodes[m].elseif
                             /\ nodes[m].ptype = "ElseBlock"
                             /\ nodes[m].pstart = nodes[n].start

\* C34: {:else} is accepted exactly when the innermost open frame is an
\* IfBlock or an EachBlock and {:else if} exactly when it is an IfBlock; on
\* any other frame they raise invalid-else-placement and
\* invalid-elseif-placement and leave the stack alone. So every block has at
\* most one else branch, plain or else-if, and the else branch of an each
\* block never holds an else-if block.
C34_ElsePlacement ==
    /\ [][(PlainElseAt /\ Applied) =>
            IF Current(stack).type \in {"IfBlock", "EachBlock"}
            THEN /\ state' = "fragment"
                 /\ Pop(stack') = stack
                 /\ Current(stack').type = "ElseBlock"
            ELSE /\ state' = "error"
                 /\ p_error' = "invalid-else-placement"
                 /\ stack' = stack]_allvars
    /\ [][(ElseIfAt /\ Applied) =>
            IF Current(stack).type = "IfBlock"
            THEN /\ state' = "fragment"
                 /\ Pop(stack') = stack
                 /\ Current(stack').type = "IfBlock" /\ Current(stack').elseif
            ELSE /\ state' = "error"
                 /\ p_error' = "invalid-elseif-placement"
                 /\ stack' = stack]_allvars
    /\ [](\A b \in 1..Len(nodes) :
             /\ Cardinality(ElsesOf(nodes[b].type, nodes[b].start, nodes[b].elseif)) <= 1
             /\ nodes[b].type = "EachBlock" =>
                   \A n \in ElsesOf(nodes[b].type, nodes[b].start, nodes[b].elseif) :
                       ~HoldsElseIf(n))

\* {#if x}{:else if x}{:else}{:else}: the second plain {:else} met the
\* ElseBlock of the else-if block and was refused
C34_Witness ==
    /\ state = "error"
    /\ p_error = "invalid-else-placement"
    /\ Len(stack) = 4
    /\ Current(stack).type = "ElseBlock"
    /\ stack[3].type = "IfBlock" /\ stack[3].elseif
    /\ \E n \in ElsesOf("IfBlock", stack[2].start, FALSE) : HoldsElseIf(n)

(***************************************************************************)
(* Parser: the sub-blocks of an await block                                *)
(***************************************************************************)
\* the mustache state is about to read {:then or {:catch at the cursor
ThenAt == state = "mustache" /\ Match(ParserTemplate, index, <<"{", ":", "t", "h", "e", "n">>)
CatchAt ==
    state = "mustache" /\ Match(ParserTemplate, index, <<"{", ":", "c", "a", "t", "c", "h">>)

\* the sub-block was replaced by a new one of the given type, the frames
\* beneath it, the AwaitBlock topmost, left as they were
Continued(type) ==
    /\ state' = "fragment"
    /\ Len(stack') = Len(stack)
    /\ Pop(stack') = Pop(stack)
    /\ Current(stack').type = type
    /\ Current(Pop(stack')).type = "AwaitBlock"
Refused(code) ==
    /\ state' = "error"
    /\ p_error' = code
    /\ stack' = stack

\* the sub-blocks of the await block that starts at s, by the property they
\* hang on
SubBlocks(s, via) ==
    {n \in 1..Len(nodes) : nodes[n].ptype = "AwaitBlock" /\ nodes[n].pstart = s
                           /\ nodes[n].via = via}
AwaitOrder(n) == IF nodes[n].via = "pending" THEN 1 ELSE IF nodes[n].via = "then" THEN 2 ELSE 3

\* C35: {:then} is accepted exactly while the innermost open frame is the
\* PendingBlock and {:catch} exactly while it is the PendingBlock or the
\* ThenBlock; elsewhere they raise invalid-then-placement and
\* invalid-catch-placement with the stack untouched. An accepted one pops
\* the sub-block and pushes the new one on the AwaitBlock. So a sub-block
\* frame always lies directly on its AwaitBlock, an await block enters each of
\* pending, then, catch at most once, and in that order in the text.
C35_AwaitOrder ==
    /\ [][(ThenAt /\ Applied) =>
            IF Current(stack).type = "PendingBlock"
            THEN Continued("ThenBlock") ELSE Refused("invalid-then-placement")]_allvars
    /\ [][(CatchAt /\ Applied) =>
            IF Current(stack).type \in {"PendingBlock", "ThenBlock"}
            THEN Continued("CatchBlock") ELSE Refused("invalid-catch-placement")]_allvars
    /\ [](\A k \in 1..Len(stack) :
             stack[k].type \in {"PendingBlock", "ThenBlock", "CatchBlock"} =>
                 k > 1 /\ stack[k - 1].type = "AwaitBlock")
    /\ [](\A b \in 1..Len(nodes) :
             nodes[b].type = "AwaitBlock" =>
                /\ \A via \in {"pending", "then", "catch"} :
                      Cardinality(SubBlocks(nodes[b].start, via)) <= 1
                /\ \A n, m \in UNION {SubBlocks(nodes[b].start, via) :
                                        via \in {"pending", "then", "catch"}} :
                      AwaitOrder(n) < AwaitOrder(m) => nodes[n].start <= nodes[m].start)

\* {#await x}{:then y}{:catch e}{:then y}: the three sub-blocks were entered
\* in order and the second {:then} was refused on the CatchBlock
C35_Witness ==
    /\ state = "error"
    /\ p_error = "invalid-then-placement"
    /\ Len(stack) = 3
    /\ Current(stack).type = "CatchBlock"
    /\ stack[2].type = "AwaitBlock"
    /\ \A via \in {"pending", "then", "catch"} : SubBlocks(stack[2].start, via) # {}

(***************************************************************************)
(* Parser: whitespace at the borders of a closed block                     *)
(***************************************************************************)
\* the block a closing mustache closes: the innermost frame that is no
\* else-if block, an open <p> and one else/pending/then/catch frame set aside
RECURSIVE ClosedFrom(_)
ClosedFrom(k) == IF stack[k].elseif THEN ClosedFrom(k - 1) ELSE stack[k]
ClosedBlock ==
    LET n  == Len(stack)
        n1 == IF stack[n].type = "Element" /\ stack[n].name = <<"p">> THEN n - 1 ELSE n
        n2 == IF stack[n1].type \in ChainTypes THEN n1 - 1 ELSE n1
    IN [type |-> ClosedFrom(n2).type, start |-> ClosedFrom(n2).start,
        elseif |-> ClosedFrom(n2).elseif]

\* the nodes by type, start and elseif
KeyOf(node) == [type |-> node.type, start |-> node.start, elseif |-> node.elseif]
ParentOf(node) == [type |-> node.ptype, start |-> node.pstart, elseif |-> node.pelseif]

RECURSIVE ChainOf(_, _)
\* the block, its else branch, the else-if block such a branch holds, and so
\* on down the chain, followed for n rounds
ChainOf(S, n) ==
    IF n = 0 THEN S
    ELSE ChainOf(S \cup {KeyOf(nodes[m]) : m \in {k \in 1..Len(nodes) :
                            /\ ParentOf(nodes[k]) \in S
                            /\ \/ nodes[k].via = "else"
                               \/ nodes[k].via = "children" /\ nodes[k].elseif}},
                 n - 1)

\* the children of a node of the chain, as positions in nodes
ChildrenIn(key) ==
    {k \in 1..Len(nodes) : nodes[k].via = "children" /\ ParentOf(nodes[k]) = key}
IsFirstIn(k, chain) ==
    \E key \in chain : k \in ChildrenIn(key) /\ \A j \in ChildrenIn(key) : k <= j
IsLastIn(k, chain) ==
    \E key \in chain : k \in ChildrenIn(key) /\ \A j \in ChildrenIn(key) : j <= k

\* the data a Text is to have once the block is closed
DataWanted(k, chain, before, after) ==
    LET d1 == IF before /\ IsFirstIn(k, chain)
              THEN SubSeq(nodes[k].data, SkipWs(nodes[k].data, 0) + 1, Len(nodes[k].data))
              ELSE nodes[k].data
    IN IF after /\ IsLastIn(k, chain) THEN StripEnd(d1) ELSE d1

\* the Text nodes and their data
Texts(ns) ==
    {[start |-> ns[k].start, data |-> ns[k].data] : k \in {j \in 1..Len(ns) : ns[j].type = "Text"}}

\* C36 as stated: when a block is closed, with `before` the character in
\* front of its start being whitespace or absent and `after` the same for the
\* character behind the closing mustache, the first Text child of the block,
\* of its else branch and of every else-if block and branch down the chain loses
\* its leading whitespace iff before, the last Text child of each loses its
\* trailing whitespace iff after, a Text left empty is dropped, and no other
\* Text changes, whatever the children of the block are
C36_Claimed ==
    [][\A kw \in ClosingKeywords :
         (ClosingAt(kw) /\ Applied /\ state' = "fragment") =>
            LET before == TrimAt(ParserTemplate, ClosedBlock.start - 1)
                after == TrimAt(ParserTemplate, index')
                chain == ChainOf({ClosedBlock}, Len(nodes))
            IN Texts(nodes') =
                 {t \in {[start |-> nodes[k].start,
                          data |-> DataWanted(k, chain, before, after)] :
                            k \in {j \in 1..Len(nodes) : nodes[j].type = "Text"}} :
                     t.data # <<>>}]_allvars

RECURSIVE ReachedOf(_, _)
\* the same chain followed as trim_whitespace follows it: only through a
\* block that has children
ReachedOf(S, n) ==
    IF n = 0 THEN S
    ELSE ReachedOf(S \cup {KeyOf(nodes[m]) : m \in {k \in 1..Len(nodes) :
                              /\ ParentOf(nodes[k]) \in S
                              /\ ChildrenIn(ParentOf(nodes[k])) # {}
                              /\ \/ nodes[k].via = "else"
                                 \/ nodes[k].via = "children" /\ nodes[k].elseif}},
                   n - 1)

\* what holds of the trimming: as stated, for the block and for the branches
\* and else-if blocks reached from it through blocks that have children
TrimFollowsChildren ==
    [][\A kw \in ClosingKeywords :
         (ClosingAt(kw) /\ Applied /\ state' = "fragment") =>
            LET before == TrimAt(ParserTemplate, ClosedBlock.start - 1)
                after == TrimAt(ParserTemplate, index')
                chain == ReachedOf({ClosedBlock}, Len(nodes))
            IN Texts(nodes') =
                 {t \in {[start |-> nodes[k].start,
                          data |-> DataWanted(k, chain, before, after)] :
                            k \in {j \in 1..Len(nodes) : nodes[j].type = "Text"}} :
                     t.data # <<>>}]_allvars

(***************************************************************************)
(* Parser: the root of the stack                                           *)
(***************************************************************************)
\* the construct at the cursor is one that pops: a closing tag of an element
\* that is not open, a closing mustache, {:else}, {:then} or {:catch}
PopsAt ==
    \/ \E name \in TagNames :
          ClosingTagAt(name) /\ \A k \in 1..Len(stack) : stack[k].name # name
    \/ /\ state = "mustache"
       /\ \E s \in {<<"{", "/">>, <<"{", ":", "e", "l", "s", "e">>,
                    <<"{", ":", "t", "h", "e", "n">>, <<"{", ":", "c", "a", "t", "c", "h">>} :
             Match(ParserTemplate, index, s)

\* no frame but the root is open, <p> elements aside, which a closing
\* construct ends on its way
OnlyRoot == \A k \in 2..Len(stack) : stack[k].type = "Element" /\ stack[k].name = <<"p">>

\* C37: in every state of the parser the stack is not empty and its bottom
\* frame is the root Fragment, which is never anywhere else; a closing tag,
\* closing mustache, {:else}, {:then} or {:catch} met with nothing open that
\* it could close or continue raises a parse error and leaves the root on the
\* stack
C37_RootStays ==
    /\ [](/\ Len(stack) >= 1
          /\ stack[1] = Root
          /\ \A k \in 2..Len(stack) : stack[k].type # "Fragment")
    /\ [][(PopsAt /\ Applied /\ OnlyRoot) =>
            /\ state' = "error"
            /\ p_error' \in {"invalid-closing-tag", "unexpected-block-close",
                             "invalid-else-placement", "invalid-elseif-placement",
                             "invalid-then-placement", "invalid-catch-placement"}
            /\ stack'[1] = Root]_allvars

\* <div></div></div>: the second closing tag met the root alone and was
\* refused
C37_Witness ==
    /\ state = "error"
    /\ p_error = "invalid-closing-tag"
    /\ stack = <<Root>>
    /\ \E n \in 1..Len(nodes) : nodes[n].type = "Element" /\ nodes[n].end > nodes[n].start
    /\ Match(template, p_error_pos, <<"<", "/", "d", "i", "v", ">">>)

(***************************************************************************)
(* Component: unique names                                                 *)
(***************************************************************************)
\* the step is a get_unique_name call, made directly or by alias for a name
\* it has no identifier for yet
Issued ==
    /\ n_calls' # n_calls
    /\ \/ n_last'.op = "get_unique_name"
       \/ n_last'.op = "alias" /\ ~HasAlias(n_last'.name)

\* C38: a name get_unique_name returns is none it has returned before, no
\* reserved word, no key of var_lookup at the time of the call, none handed
\* out before by get_unique_name or by a generator of get_unique_name_maker,
\* and none the scope passed has; alias returns one identifier for one name
\* over all its calls
C38_UniqueNames ==
    /\ [][Issued =>
            /\ n_last'.result \notin handed
            /\ n_last'.result \notin reserved
            /\ n_last'.result \notin lookup_names
            /\ n_last'.result \notin made
            /\ n_last'.scope # <<>> => n_last'.result \notin n_last'.scope[1]
            /\ n_last'.result \in handed']_allvars
    /\ [](\A a \in aliased, b \in aliased : a[1] = b[1] => a[2] = b[2])

\* get_unique_name returned x_2 for x: x was a generator's and x_1 the
\* scope's; before that alias gave if_1 for the reserved word if
C38_Witness ==
    /\ n_last.op = "get_unique_name"
    /\ n_last.name = <<"x">>
    /\ n_last.scope # <<>>
    /\ n_last.result = <<"x", "_", "2">>
    /\ <<"x">> \in made
    /\ <<"x">> \notin handed
    /\ <<<<"i", "f">>, <<"i", "f", "_", "1">>>> \in aliased

====
